---------------------------- MODULE Spec2Model ----------------------------
(***************************************************************************)
(* A model of the UsersService and CommitsService bindings of go-gitlab.   *)
(*                                                                         *)
(* Every method of the two services has the same shape:                    *)
(*     [parseID]  ->  fmt.Sprintf  ->  client.NewRequest  ->  client.Do    *)
(*     ->  return                                                          *)
(* A call is modelled as a small process whose position (pc) names the     *)
(* next step.  What a method passes to each step (verb, path, options,     *)
(* decode target) and how it turns the outcome of client.Do into its       *)
(* result is one definition per method, named as in the source.            *)
(*                                                                         *)
(* Strings that end up in a URL path are sequences of one-character        *)
(* strings, so that escaping, formatting and the segment structure of a    *)
(* path are computed rather than assumed.                                  *)
(*                                                                         *)
(* The client (parseID, NewRequest, Do) is not part of the two files; it   *)
(* is the environment of the methods and is modelled as the set of         *)
(* outcomes it can hand back.                                              *)
(***************************************************************************)
EXTENDS Integers, Sequences, FiniteSets, TLC

(* ------------------------------ bounds --------------------------------- *)

\* Longest JSON array a response carries.
MaxLen == 2

\* Most resources the history of deletes remembers.
MaxDeleted == 1

(* -------------------------- program constants -------------------------- *)

StatusCreated == 201
StatusForbidden == 403
StatusNotFound == 404

\* Status codes the server answers with: the three the code names, two other
\* 2xx codes and one other non-2xx code.
StatusCodes == {200, StatusCreated, 204, StatusForbidden, StatusNotFound, 500}

(* ------------------------------ strings -------------------------------- *)

Digits == <<"0", "1", "2", "3", "4", "5", "6", "7", "8", "9">>

RECURSIVE Itoa(_)
\* The decimal form of an integer (the %d verb, strconv.Itoa).
Itoa(n) ==
  IF n < 0 THEN <<"-">> \o Itoa(-n)
  ELSE IF n < 10 THEN <<Digits[n + 1]>>
  ELSE Itoa(n \div 10) \o <<Digits[(n % 10) + 1]>>

\* url.QueryEscape of one character: unreserved characters are kept, a space
\* becomes "+", everything else is percent-encoded.
EscapeChar(c) ==
  CASE c = "/" -> <<"%", "2", "F">>
    [] c = "?" -> <<"%", "3", "F">>
    [] c = "#" -> <<"%", "2", "3">>
    [] c = "%" -> <<"%", "2", "5">>
    [] c = "+" -> <<"%", "2", "B">>
    [] c = " " -> <<"+">>
    [] OTHER -> <<c>>

RECURSIVE QueryEscape(_)
QueryEscape(s) ==
  IF s = <<>> THEN <<>> ELSE EscapeChar(Head(s)) \o QueryEscape(Tail(s))

RECURSIVE Sprintf(_, _)
\* fmt.Sprintf for formats whose verbs are %s and %d: the characters of the
\* format are copied, each verb is replaced by the next argument.
Sprintf(format, args) ==
  IF format = <<>> THEN <<>>
  ELSE IF Head(format) = "%s" THEN Head(args) \o Sprintf(Tail(format), Tail(args))
  ELSE IF Head(format) = "%d" THEN Itoa(Head(args)) \o Sprintf(Tail(format), Tail(args))
  ELSE <<Head(format)>> \o Sprintf(Tail(format), args)

(* ------------------------------- errors -------------------------------- *)

\* An error value: its message and, for the one formatted message, the number
\* formatted into it.
Err(msg) == [msg |-> msg, code |-> 0]
NoErr == Err("nil")

ErrParseID == Err("invalid ID type, the ID must be an int or a string")
ErrNewRequest == Err("NewRequest failed")
ErrTransport == Err("transport failure")
ErrResponse == Err("error response")
ErrDecode == Err("decode failure")

\* The errors the client's steps produce.
ClientErrors == {ErrParseID, ErrNewRequest, ErrTransport, ErrResponse, ErrDecode}

(* ----------------------------- identifiers ----------------------------- *)

\* A project id is an interface{}: an int, a string, or anything else.
IntPid(n) == [kind |-> "int", n |-> n, s |-> <<>>]
StrPid(s) == [kind |-> "string", n |-> 0, s |-> s]
BadPid == [kind |-> "other", n |-> 0, s |-> <<>>]
NoPid == IntPid(0)

Pids == {IntPid(7), StrPid(<<"g", "/", "p">>), BadPid}
Shas == {<<"c">>, <<"c", "/", "d", "i", "f", "f">>, <<"v", "?", "#">>}
Users == {-3, 0, 42}
Ids == {1, 17}

\* parseID: an int is formatted, a string is taken as it is, any other type
\* is an error.
parseID(id) ==
  CASE id.kind = "int" -> [id |-> Itoa(id.n), err |-> NoErr]
    [] id.kind = "string" -> [id |-> id.s, err |-> NoErr]
    [] OTHER -> [id |-> <<>>, err |-> ErrParseID]

(* ------------------------------- options ------------------------------- *)

\* One field of an options struct: its Go kind (a pointer, a slice or a plain
\* value) and, from its url and json tags, its wire name and whether the tag
\* says omitempty.
F(field, kind, url, urlOmit, json, jsonOmit) ==
  [field |-> field, kind |-> kind, url |-> url, urlOmit |-> urlOmit,
   json |-> json, jsonOmit |-> jsonOmit]

\* ListOptions, embedded in the list options: page and per_page.
ListOptions ==
  { F("Page", "value", "page", TRUE, "page", TRUE),
    F("PerPage", "value", "per_page", TRUE, "per_page", TRUE) }

(* ---- options structs: one record per field, from its struct tags ---- *)
ListCommitsOptions ==
  ListOptions \cup
  { F("RefName", "ptr", "ref_name", TRUE, "ref_name", TRUE),
    F("Since", "ptr", "since", TRUE, "since", TRUE),
    F("Until", "ptr", "until", TRUE, "until", TRUE),
    F("Path", "ptr", "path", TRUE, "path", TRUE),
    F("All", "ptr", "all", TRUE, "all", TRUE),
    F("WithStats", "ptr", "with_stats", TRUE, "with_stats", TRUE) }

GetCommitRefsOptions ==
  ListOptions \cup
  { F("Type", "ptr", "type", TRUE, "type", TRUE) }

CreateCommitOptions ==
  { F("Branch", "ptr", "branch", FALSE, "branch", FALSE),
    F("CommitMessage", "ptr", "commit_message", FALSE, "commit_message", FALSE),
    F("StartBranch", "ptr", "start_branch", TRUE, "start_branch", TRUE),
    F("Actions", "slice", "actions", FALSE, "actions", FALSE),
    F("AuthorEmail", "ptr", "author_email", TRUE, "author_email", TRUE),
    F("AuthorName", "ptr", "author_name", TRUE, "author_name", TRUE) }

\* type GetCommitDiffOptions ListOptions
GetCommitDiffOptions ==
  ListOptions

\* type GetCommitCommentsOptions ListOptions
GetCommitCommentsOptions ==
  ListOptions

PostCommitCommentOptions ==
  { F("Note", "ptr", "note", TRUE, "note", TRUE),
    F("Path", "ptr", "path", FALSE, "path", FALSE),
    F("Line", "ptr", "line", FALSE, "line", FALSE),
    F("LineType", "ptr", "line_type", FALSE, "line_type", FALSE) }

GetCommitStatusesOptions ==
  ListOptions \cup
  { F("Ref", "ptr", "ref", TRUE, "ref", TRUE),
    F("Stage", "ptr", "stage", TRUE, "stage", TRUE),
    F("Name", "ptr", "name", TRUE, "name", TRUE),
    F("All", "ptr", "all", TRUE, "all", TRUE) }

SetCommitStatusOptions ==
  { F("State", "value", "state", FALSE, "state", FALSE),
    F("Ref", "ptr", "ref", TRUE, "ref", TRUE),
    F("Name", "ptr", "name", TRUE, "name", TRUE),
    F("Context", "ptr", "context", TRUE, "context", TRUE),
    F("TargetURL", "ptr", "target_url", TRUE, "target_url", TRUE),
    F("Description", "ptr", "description", TRUE, "description", TRUE) }

CherryPickCommitOptions ==
  { F("TargetBranch", "ptr", "branch", FALSE, "branch", TRUE) }

ListUsersOptions ==
  ListOptions \cup
  { F("Active", "ptr", "active", TRUE, "active", TRUE),
    F("Blocked", "ptr", "blocked", TRUE, "blocked", TRUE),
    F("Search", "ptr", "search", TRUE, "search", TRUE),
    F("Username", "ptr", "username", TRUE, "username", TRUE),
    F("ExternalUID", "ptr", "extern_uid", TRUE, "extern_uid", TRUE),
    F("Provider", "ptr", "provider", TRUE, "provider", TRUE),
    F("CreatedBefore", "ptr", "created_before", TRUE, "created_before", TRUE),
    F("CreatedAfter", "ptr", "created_after", TRUE, "created_after", TRUE),
    F("OrderBy", "ptr", "order_by", TRUE, "order_by", TRUE),
    F("Sort", "ptr", "sort", TRUE, "sort", TRUE),
    F("WithCustomAttributes", "ptr", "with_custom_attributes", TRUE, "with_custom_attributes", TRUE) }

CreateUserOptions ==
  { F("Email", "ptr", "email", TRUE, "email", TRUE),
    F("Password", "ptr", "password", TRUE, "password", TRUE),
    F("ResetPassword", "ptr", "reset_password", TRUE, "reset_password", TRUE),
    F("Username", "ptr", "username", TRUE, "username", TRUE),
    F("Name", "ptr", "name", TRUE, "name", TRUE),
    F("Skype", "ptr", "skype", TRUE, "skype", TRUE),
    F("Linkedin", "ptr", "linkedin", TRUE, "linkedin", TRUE),
    F("Twitter", "ptr", "twitter", TRUE, "twitter", TRUE),
    F("WebsiteURL", "ptr", "website_url", TRUE, "website_url", TRUE),
    F("Organization", "ptr", "organization", TRUE, "organization", TRUE),
    F("ProjectsLimit", "ptr", "projects_limit", TRUE, "projects_limit", TRUE),
    F("ExternUID", "ptr", "extern_uid", TRUE, "extern_uid", TRUE),
    F("Provider", "ptr", "provider", TRUE, "provider", TRUE),
    F("Bio", "ptr", "bio", TRUE, "bio", TRUE),
    F("Location", "ptr", "location", TRUE, "location", TRUE),
    F("Admin", "ptr", "admin", TRUE, "admin", TRUE),
    F("CanCreateGroup", "ptr", "can_create_group", TRUE, "can_create_group", TRUE),
    F("SkipConfirmation", "ptr", "skip_confirmation", TRUE, "skip_confirmation", TRUE),
    F("External", "ptr", "external", TRUE, "external", TRUE) }

ModifyUserOptions ==
  { F("Email", "ptr", "email", TRUE, "email", TRUE),
    F("Password", "ptr", "password", TRUE, "password", TRUE),
    F("Username", "ptr", "username", TRUE, "username", TRUE),
    F("Name", "ptr", "name", TRUE, "name", TRUE),
    F("Skype", "ptr", "skype", TRUE, "skype", TRUE),
    F("Linkedin", "ptr", "linkedin", TRUE, "linkedin", TRUE),
    F("Twitter", "ptr", "twitter", TRUE, "twitter", TRUE),
    F("WebsiteURL", "ptr", "website_url", TRUE, "website_url", TRUE),
    F("Organization", "ptr", "organization", TRUE, "organization", TRUE),
    F("ProjectsLimit", "ptr", "projects_limit", TRUE, "projects_limit", TRUE),
    F("ExternUID", "ptr", "extern_uid", TRUE, "extern_uid", TRUE),
    F("Provider", "ptr", "provider", TRUE, "provider", TRUE),
    F("Bio", "ptr", "bio", TRUE, "bio", TRUE),
    F("Location", "ptr", "location", TRUE, "location", TRUE),
    F("Admin", "ptr", "admin", TRUE, "admin", TRUE),
    F("CanCreateGroup", "ptr", "can_create_group", TRUE, "can_create_group", TRUE),
    F("SkipReconfirmation", "ptr", "skip_reconfirmation", TRUE, "skip_reconfirmation", TRUE),
    F("External", "ptr", "external", TRUE, "external", TRUE) }

\* type ListSSHKeysForUserOptions ListOptions
ListSSHKeysForUserOptions ==
  ListOptions

AddSSHKeyOptions ==
  { F("Title", "ptr", "title", TRUE, "title", TRUE),
    F("Key", "ptr", "key", TRUE, "key", TRUE) }

\* type ListEmailsForUserOptions ListOptions
ListEmailsForUserOptions ==
  ListOptions

AddEmailOptions ==
  { F("Email", "ptr", "email", TRUE, "email", TRUE) }

GetAllImpersonationTokensOptions ==
  ListOptions \cup
  { F("State", "ptr", "state", TRUE, "state", TRUE) }

CreateImpersonationTokenOptions ==
  { F("Name", "ptr", "name", TRUE, "name", TRUE),
    F("Scopes", "ptr", "scopes", TRUE, "scopes", TRUE),
    F("ExpiresAt", "ptr", "expires_at", TRUE, "expires_at", TRUE) }

GetUserActivitiesOptions ==
  { F("From", "ptr", "from", TRUE, "from", TRUE) }

UserStatusOptions ==
  { F("Emoji", "ptr", "emoji", TRUE, "emoji", TRUE),
    F("Message", "ptr", "message", TRUE, "message", TRUE) }

OptionsType(t) ==
  CASE t = "ListCommitsOptions" -> ListCommitsOptions
    [] t = "GetCommitRefsOptions" -> GetCommitRefsOptions
    [] t = "CreateCommitOptions" -> CreateCommitOptions
    [] t = "GetCommitDiffOptions" -> GetCommitDiffOptions
    [] t = "GetCommitCommentsOptions" -> GetCommitCommentsOptions
    [] t = "PostCommitCommentOptions" -> PostCommitCommentOptions
    [] t = "GetCommitStatusesOptions" -> GetCommitStatusesOptions
    [] t = "SetCommitStatusOptions" -> SetCommitStatusOptions
    [] t = "CherryPickCommitOptions" -> CherryPickCommitOptions
    [] t = "ListUsersOptions" -> ListUsersOptions
    [] t = "CreateUserOptions" -> CreateUserOptions
    [] t = "ModifyUserOptions" -> ModifyUserOptions
    [] t = "ListSSHKeysForUserOptions" -> ListSSHKeysForUserOptions
    [] t = "AddSSHKeyOptions" -> AddSSHKeyOptions
    [] t = "ListEmailsForUserOptions" -> ListEmailsForUserOptions
    [] t = "AddEmailOptions" -> AddEmailOptions
    [] t = "GetAllImpersonationTokensOptions" -> GetAllImpersonationTokensOptions
    [] t = "CreateImpersonationTokenOptions" -> CreateImpersonationTokenOptions
    [] t = "GetUserActivitiesOptions" -> GetUserActivitiesOptions
    [] t = "UserStatusOptions" -> UserStatusOptions

\* A nil options pointer.
NoOpt == [type |-> "nil", set |-> {}]

\* The options a caller passes: nil, or a struct with no field set, with one
\* field set, or with every field set (a pointer field set is non-nil, a
\* value field set is non-zero).
OptValues(t) ==
  LET fields == {f.field : f \in OptionsType(t)} IN
  {NoOpt} \cup
  {[type |-> t, set |-> s] : s \in {{}, fields} \cup {{x} : x \in fields}}

WireName(f, enc) == IF enc = "json" THEN f.json ELSE f.url
OmitEmpty(f, enc) == IF enc = "json" THEN f.jsonOmit ELSE f.urlOmit

\* Whether the encoder writes the field: a set field always; an unset field
\* unless its tag says omitempty (the query encoder writes nothing for an
\* empty slice, having no element to write).
Emitted(f, enc, isSet) ==
  isSet \/ (~OmitEmpty(f, enc) /\ ~(enc = "url" /\ f.kind = "slice"))

\* The encoded options: the wire names written, each with a value or empty.
Encode(opt, enc) ==
  IF opt = NoOpt THEN {}
  ELSE { [name |-> WireName(f, enc),
          val |-> IF f.field \in opt.set THEN "value" ELSE "empty"] :
         f \in {g \in OptionsType(opt.type) : Emitted(g, enc, g.field \in opt.set)} }

(* --------------------------- decoded values ---------------------------- *)

\* A Go value a method hands back as data: nil, one record, or a slice.
Val(isNil, items) == [isNil |-> isNil, items |-> items]
NilVal == Val(TRUE, <<>>)
ZeroStruct == [ID |-> 0]

\* What a method hands client.Do to decode into.
NilTarget == [kind |-> "nil", init |-> NilVal]
NewStruct == [kind |-> "struct", init |-> Val(FALSE, <<ZeroStruct>>)]
PtrToNilSlice == [kind |-> "slice", init |-> NilVal]
PtrToNilPtr == [kind |-> "ptr", init |-> NilVal]
PtrToNewStruct == [kind |-> "ptr", init |-> Val(FALSE, <<ZeroStruct>>)]

\* JSON bodies: null, an object, an array of objects; ok is FALSE when the
\* text is malformed after what is shown.
ObjIds == {1, 2}
JNull == [kind |-> "null", elems |-> <<>>, ok |-> TRUE]
JObject(i, ok) == [kind |-> "object", elems |-> <<i>>, ok |-> ok]
JArray(s, ok) == [kind |-> "array", elems |-> s, ok |-> ok]

SeqsUpTo(S, n) == UNION {[1..k -> S] : k \in 0..n}

Bodies ==
  {JNull} \cup {JObject(i, ok) : i \in ObjIds, ok \in BOOLEAN}
          \cup {JArray(s, ok) : s \in SeqsUpTo(ObjIds, MaxLen), ok \in BOOLEAN}

DecodeObject(i) == [ID |-> i]
DecodeArray(s) == [k \in 1..Len(s) |-> DecodeObject(s[k])]

\* json decoding of a body into a target: the value the target holds
\* afterwards and the error.
Unmarshal(t, body) ==
  CASE body.kind = "null" ->
         [v |-> IF t.kind = "struct" THEN t.init ELSE NilVal, err |-> NoErr]
    [] body.kind = "object" /\ t.kind \in {"struct", "ptr"} ->
         [v |-> Val(FALSE, <<DecodeObject(body.elems[1])>>),
          err |-> IF body.ok THEN NoErr ELSE ErrDecode]
    [] body.kind = "object" /\ t.kind = "slice" ->
         [v |-> t.init, err |-> ErrDecode]
    [] body.kind = "array" /\ t.kind = "slice" ->
         [v |-> Val(FALSE, DecodeArray(body.elems)),
          err |-> IF body.ok THEN NoErr ELSE ErrDecode]
    [] OTHER ->
         [v |-> Val(FALSE, <<ZeroStruct>>), err |-> ErrDecode]

(* ------------------------------ the client ----------------------------- *)

\* A *Response: nil, or a response with its status code.
NilResp == [isNil |-> TRUE, StatusCode |-> 0]
Resp(s) == [isNil |-> FALSE, StatusCode |-> s]

NoReq == [verb |-> "", path |-> <<>>, opt |-> NoOpt, params |-> {}, enc |-> ""]

\* The encoders NewRequest may use for a verb: the query string, or for a
\* request with a body the JSON body.
Encodings(verb) == IF verb \in {"POST", "PUT"} THEN {"url", "json"} ELSE {"url"}

\* client.NewRequest: an error, or the request with the options encoded.
NewRequest(verb, u, opt) ==
  {[req |-> NoReq, err |-> ErrNewRequest]} \cup
  {[req |-> [verb |-> verb, path |-> u, opt |-> opt,
             params |-> Encode(opt, enc), enc |-> enc],
    err |-> NoErr] : enc \in Encodings(verb)}

\* client.Do(req, v): no response at all; a response the client reports as an
\* error without decoding it; or a response whose body is decoded into v (when
\* v is not nil), which succeeds or fails part-way.  body is the JSON that was
\* decoded (null when nothing was).
Do(req, v) ==
  {[resp |-> NilResp, err |-> ErrTransport, v |-> v.init, body |-> JNull]} \cup
  {[resp |-> Resp(s), err |-> ErrResponse, v |-> v.init, body |-> JNull] :
   s \in StatusCodes} \cup
  IF v.kind = "nil"
    THEN {[resp |-> Resp(s), err |-> NoErr, v |-> NilVal, body |-> JNull] :
          s \in StatusCodes}
    ELSE {[resp |-> Resp(s), err |-> Unmarshal(v, b).err, v |-> Unmarshal(v, b).v,
           body |-> b] : s \in StatusCodes, b \in Bodies}

(* ------------------------------ the methods ---------------------------- *)

\* func (s *CommitsService) ListCommits: commits.go 82-101
ListCommits(pid, opt) ==
  LET project == parseID(pid) IN
  [ service |-> "CommitsService", parses |-> TRUE, parseErr |-> project.err,
    verb |-> "GET",
    u |-> Sprintf(<<"p", "r", "o", "j", "e", "c", "t", "s", "/", "%s", "/", "r", "e", "p", "o",
                 "s", "i", "t", "o", "r", "y", "/", "c", "o", "m", "m", "i", "t", "s">>,
                 <<QueryEscape(project.id)>>),
    opt |-> opt, v |-> PtrToNilSlice, returns |-> "data" ]

\* func (s *CommitsService) GetCommitRefs: commits.go 147-166
GetCommitRefs(pid, sha, opt) ==
  LET project == parseID(pid) IN
  [ service |-> "CommitsService", parses |-> TRUE, parseErr |-> project.err,
    verb |-> "GET",
    u |-> Sprintf(<<"p", "r", "o", "j", "e", "c", "t", "s", "/", "%s", "/", "r", "e", "p", "o",
                 "s", "i", "t", "o", "r", "y", "/", "c", "o", "m", "m", "i", "t", "s", "/",
                 "%s", "/", "r", "e", "f", "s">>,
                 <<QueryEscape(project.id), sha>>),
    opt |-> opt, v |-> PtrToNilSlice, returns |-> "data" ]

\* func (s *CommitsService) GetCommit: commits.go 172-191
GetCommit(pid, sha) ==
  LET project == parseID(pid) IN
  [ service |-> "CommitsService", parses |-> TRUE, parseErr |-> project.err,
    verb |-> "GET",
    u |-> Sprintf(<<"p", "r", "o", "j", "e", "c", "t", "s", "/", "%s", "/", "r", "e", "p", "o",
                 "s", "i", "t", "o", "r", "y", "/", "c", "o", "m", "m", "i", "t", "s", "/", "%s">>,
                 <<QueryEscape(project.id), sha>>),
    opt |-> NoOpt, v |-> NewStruct, returns |-> "data" ]

\* func (s *CommitsService) CreateCommit: commits.go 208-227
CreateCommit(pid, opt) ==
  LET project == parseID(pid) IN
  [ service |-> "CommitsService", parses |-> TRUE, parseErr |-> project.err,
    verb |-> "POST",
    u |-> Sprintf(<<"p", "r", "o", "j", "e", "c", "t", "s", "/", "%s", "/", "r", "e", "p", "o",
                 "s", "i", "t", "o", "r", "y", "/", "c", "o", "m", "m", "i", "t", "s">>,
                 <<QueryEscape(project.id)>>),
    opt |-> opt, v |-> PtrToNilPtr, returns |-> "data" ]

\* func (s *CommitsService) GetCommitDiff: commits.go 257-276
GetCommitDiff(pid, sha, opt) ==
  LET project == parseID(pid) IN
  [ service |-> "CommitsService", parses |-> TRUE, parseErr |-> project.err,
    verb |-> "GET",
    u |-> Sprintf(<<"p", "r", "o", "j", "e", "c", "t", "s", "/", "%s", "/", "r", "e", "p", "o",
                 "s", "i", "t", "o", "r", "y", "/", "c", "o", "m", "m", "i", "t", "s", "/",
                 "%s", "/", "d", "i", "f", "f">>,
                 <<QueryEscape(project.id), sha>>),
    opt |-> opt, v |-> PtrToNilSlice, returns |-> "data" ]

\* func (s *CommitsService) GetCommitComments: commits.go 314-333
GetCommitComments(pid, sha, opt) ==
  LET project == parseID(pid) IN
  [ service |-> "CommitsService", parses |-> TRUE, parseErr |-> project.err,
    verb |-> "GET",
    u |-> Sprintf(<<"p", "r", "o", "j", "e", "c", "t", "s", "/", "%s", "/", "r", "e", "p", "o",
                 "s", "i", "t", "o", "r", "y", "/", "c", "o", "m", "m", "i", "t", "s", "/",
                 "%s", "/", "c", "o", "m", "m", "e", "n", "t", "s">>,
                 <<QueryEscape(project.id), sha>>),
    opt |-> opt, v |-> PtrToNilSlice, returns |-> "data" ]

\* func (s *CommitsService) PostCommitComment: commits.go 353-372
PostCommitComment(pid, sha, opt) ==
  LET project == parseID(pid) IN
  [ service |-> "CommitsService", parses |-> TRUE, parseErr |-> project.err,
    verb |-> "POST",
    u |-> Sprintf(<<"p", "r", "o", "j", "e", "c", "t", "s", "/", "%s", "/", "r", "e", "p", "o",
                 "s", "i", "t", "o", "r", "y", "/", "c", "o", "m", "m", "i", "t", "s", "/",
                 "%s", "/", "c", "o", "m", "m", "e", "n", "t", "s">>,
                 <<QueryEscape(project.id), sha>>),
    opt |-> opt, v |-> NewStruct, returns |-> "data" ]

\* func (s *CommitsService) GetCommitStatuses: commits.go 405-424
GetCommitStatuses(pid, sha, opt) ==
  LET project == parseID(pid) IN
  [ service |-> "CommitsService", parses |-> TRUE, parseErr |-> project.err,
    verb |-> "GET",
    u |-> Sprintf(<<"p", "r", "o", "j", "e", "c", "t", "s", "/", "%s", "/", "r", "e", "p", "o",
                 "s", "i", "t", "o", "r", "y", "/", "c", "o", "m", "m", "i", "t", "s", "/",
                 "%s", "/", "s", "t", "a", "t", "u", "s", "e", "s">>,
                 <<QueryEscape(project.id), sha>>),
    opt |-> opt, v |-> PtrToNilSlice, returns |-> "data" ]

\* Mutant of SetCommitStatus: the path of GetCommitStatuses.
SetCommitStatus_UnderCommits(pid, sha, opt) ==
  LET project == parseID(pid) IN
  [ service |-> "CommitsService", parses |-> TRUE, parseErr |-> project.err,
    verb |-> "POST",
    u |-> Sprintf(<<"p", "r", "o", "j", "e", "c", "t", "s", "/", "%s", "/", "r", "e", "p", "o",
                 "s", "i", "t", "o", "r", "y", "/", "c", "o", "m", "m", "i", "t", "s", "/",
                 "%s", "/", "s", "t", "a", "t", "u", "s", "e", "s">>,
                 <<QueryEscape(project.id), sha>>),
    opt |-> opt, v |-> PtrToNilPtr, returns |-> "data" ]

\* func (s *CommitsService) SetCommitStatus: commits.go 441-460
SetCommitStatus(pid, sha, opt) ==
  LET project == parseID(pid) IN
  [ service |-> "CommitsService", parses |-> TRUE, parseErr |-> project.err,
    verb |-> "POST",
    u |-> Sprintf(<<"p", "r", "o", "j", "e", "c", "t", "s", "/", "%s", "/", "s", "t", "a", "t",
                 "u", "s", "e", "s", "/", "%s">>,
                 <<QueryEscape(project.id), sha>>),
    opt |-> opt, v |-> PtrToNilPtr, returns |-> "data" ]

\* func (s *CommitsService) GetMergeRequestsByCommit: commits.go 466-486
GetMergeRequestsByCommit(pid, sha) ==
  LET project == parseID(pid) IN
  [ service |-> "CommitsService", parses |-> TRUE, parseErr |-> project.err,
    verb |-> "GET",
    u |-> Sprintf(<<"p", "r", "o", "j", "e", "c", "t", "s", "/", "%s", "/", "r", "e", "p", "o",
                 "s", "i", "t", "o", "r", "y", "/", "c", "o", "m", "m", "i", "t", "s", "/",
                 "%s", "/", "m", "e", "r", "g", "e", "_", "r", "e", "q", "u", "e", "s", "t", "s">>,
                 <<QueryEscape(project.id), QueryEscape(sha)>>),
    opt |-> NoOpt, v |-> PtrToNilSlice, returns |-> "data" ]

\* func (s *CommitsService) CherryPickCommit: commits.go 498-518
CherryPickCommit(pid, sha, opt) ==
  LET project == parseID(pid) IN
  [ service |-> "CommitsService", parses |-> TRUE, parseErr |-> project.err,
    verb |-> "POST",
    u |-> Sprintf(<<"p", "r", "o", "j", "e", "c", "t", "s", "/", "%s", "/", "r", "e", "p", "o",
                 "s", "i", "t", "o", "r", "y", "/", "c", "o", "m", "m", "i", "t", "s", "/",
                 "%s", "/", "c", "h", "e", "r", "r", "y", "_", "p", "i", "c", "k">>,
                 <<QueryEscape(project.id), QueryEscape(sha)>>),
    opt |-> opt, v |-> PtrToNilPtr, returns |-> "data" ]

\* func (s *UsersService) ListUsers: unnamed/part_000 101-114
ListUsers(opt) ==
  [ service |-> "UsersService", parses |-> FALSE, parseErr |-> NoErr,
    verb |-> "GET",
    u |-> <<"u", "s", "e", "r", "s">>,
    opt |-> opt, v |-> PtrToNilSlice, returns |-> "data" ]

\* func (s *UsersService) GetUser: unnamed/part_000 119-134
GetUser(user) ==
  [ service |-> "UsersService", parses |-> FALSE, parseErr |-> NoErr,
    verb |-> "GET",
    u |-> Sprintf(<<"u", "s", "e", "r", "s", "/", "%d">>,
                 <<user>>),
    opt |-> NoOpt, v |-> NewStruct, returns |-> "data" ]

\* func (s *UsersService) CreateUser: unnamed/part_000 164-177
CreateUser(opt) ==
  [ service |-> "UsersService", parses |-> FALSE, parseErr |-> NoErr,
    verb |-> "POST",
    u |-> <<"u", "s", "e", "r", "s">>,
    opt |-> opt, v |-> NewStruct, returns |-> "data" ]

\* func (s *UsersService) ModifyUser: unnamed/part_000 207-222
ModifyUser(user, opt) ==
  [ service |-> "UsersService", parses |-> FALSE, parseErr |-> NoErr,
    verb |-> "PUT",
    u |-> Sprintf(<<"u", "s", "e", "r", "s", "/", "%d">>,
                 <<user>>),
    opt |-> opt, v |-> NewStruct, returns |-> "data" ]

\* Mutant of DeleteUser: the path of DeleteSSHKey.
DeleteUser_KeyPath(user) ==
  [ service |-> "UsersService", parses |-> FALSE, parseErr |-> NoErr,
    verb |-> "DELETE",
    u |-> Sprintf(<<"u", "s", "e", "r", "/", "k", "e", "y", "s", "/", "%d">>,
                 <<user>>),
    opt |-> NoOpt, v |-> NilTarget, returns |-> "resp" ]

\* func (s *UsersService) DeleteUser: unnamed/part_000 231-240
DeleteUser(user) ==
  [ service |-> "UsersService", parses |-> FALSE, parseErr |-> NoErr,
    verb |-> "DELETE",
    u |-> Sprintf(<<"u", "s", "e", "r", "s", "/", "%d">>,
                 <<user>>),
    opt |-> NoOpt, v |-> NilTarget, returns |-> "resp" ]

\* func (s *UsersService) CurrentUser: unnamed/part_000 245-258
CurrentUser ==
  [ service |-> "UsersService", parses |-> FALSE, parseErr |-> NoErr,
    verb |-> "GET",
    u |-> <<"u", "s", "e", "r">>,
    opt |-> NoOpt, v |-> NewStruct, returns |-> "data" ]

\* func (s *UsersService) ListSSHKeys: unnamed/part_000 273-286
ListSSHKeys ==
  [ service |-> "UsersService", parses |-> FALSE, parseErr |-> NoErr,
    verb |-> "GET",
    u |-> <<"u", "s", "e", "r", "/", "k", "e", "y", "s">>,
    opt |-> NoOpt, v |-> PtrToNilSlice, returns |-> "data" ]

\* func (s *UsersService) ListSSHKeysForUser: unnamed/part_000 299-314
ListSSHKeysForUser(user, opt) ==
  [ service |-> "UsersService", parses |-> FALSE, parseErr |-> NoErr,
    verb |-> "GET",
    u |-> Sprintf(<<"u", "s", "e", "r", "s", "/", "%d", "/", "k", "e", "y", "s">>,
                 <<user>>),
    opt |-> opt, v |-> PtrToNilSlice, returns |-> "data" ]

\* func (s *UsersService) GetSSHKey: unnamed/part_000 319-334
GetSSHKey(key) ==
  [ service |-> "UsersService", parses |-> FALSE, parseErr |-> NoErr,
    verb |-> "GET",
    u |-> Sprintf(<<"u", "s", "e", "r", "/", "k", "e", "y", "s", "/", "%d">>,
                 <<key>>),
    opt |-> NoOpt, v |-> NewStruct, returns |-> "data" ]

\* func (s *UsersService) AddSSHKey: unnamed/part_000 347-360
AddSSHKey(opt) ==
  [ service |-> "UsersService", parses |-> FALSE, parseErr |-> NoErr,
    verb |-> "POST",
    u |-> <<"u", "s", "e", "r", "/", "k", "e", "y", "s">>,
    opt |-> opt, v |-> NewStruct, returns |-> "data" ]

\* func (s *UsersService) AddSSHKeyForUser: unnamed/part_000 366-381
AddSSHKeyForUser(user, opt) ==
  [ service |-> "UsersService", parses |-> FALSE, parseErr |-> NoErr,
    verb |-> "POST",
    u |-> Sprintf(<<"u", "s", "e", "r", "s", "/", "%d", "/", "k", "e", "y", "s">>,
                 <<user>>),
    opt |-> opt, v |-> NewStruct, returns |-> "data" ]

\* func (s *UsersService) DeleteSSHKey: unnamed/part_000 389-398
DeleteSSHKey(key) ==
  [ service |-> "UsersService", parses |-> FALSE, parseErr |-> NoErr,
    verb |-> "DELETE",
    u |-> Sprintf(<<"u", "s", "e", "r", "/", "k", "e", "y", "s", "/", "%d">>,
                 <<key>>),
    opt |-> NoOpt, v |-> NilTarget, returns |-> "resp" ]

\* Mutant of DeleteSSHKeyForUser: the key id before the user id.
DeleteSSHKeyForUser_KeyFirst(user, key) ==
  [ service |-> "UsersService", parses |-> FALSE, parseErr |-> NoErr,
    verb |-> "DELETE",
    u |-> Sprintf(<<"u", "s", "e", "r", "s", "/", "%d", "/", "k", "e", "y", "s", "/", "%d">>,
                 <<key, user>>),
    opt |-> NoOpt, v |-> NilTarget, returns |-> "resp" ]

\* func (s *UsersService) DeleteSSHKeyForUser: unnamed/part_000 405-414
DeleteSSHKeyForUser(user, key) ==
  [ service |-> "UsersService", parses |-> FALSE, parseErr |-> NoErr,
    verb |-> "DELETE",
    u |-> Sprintf(<<"u", "s", "e", "r", "s", "/", "%d", "/", "k", "e", "y", "s", "/", "%d">>,
                 <<user, key>>),
    opt |-> NoOpt, v |-> NilTarget, returns |-> "resp" ]

\* func (s *UsersService) BlockUser: unnamed/part_000 419-442
BlockUser(user) ==
  [ service |-> "UsersService", parses |-> FALSE, parseErr |-> NoErr,
    verb |-> "POST",
    u |-> Sprintf(<<"u", "s", "e", "r", "s", "/", "%d", "/", "b", "l", "o", "c", "k">>,
                 <<user>>),
    opt |-> NoOpt, v |-> NilTarget, returns |-> "BlockUser" ]

\* func (s *UsersService) UnblockUser: unnamed/part_000 447-470
UnblockUser(user) ==
  [ service |-> "UsersService", parses |-> FALSE, parseErr |-> NoErr,
    verb |-> "POST",
    u |-> Sprintf(<<"u", "s", "e", "r", "s", "/", "%d", "/", "u", "n", "b", "l", "o", "c", "k">>,
                 <<user>>),
    opt |-> NoOpt, v |-> NilTarget, returns |-> "UnblockUser" ]

\* func (s *UsersService) ListEmails: unnamed/part_000 483-496
ListEmails ==
  [ service |-> "UsersService", parses |-> FALSE, parseErr |-> NoErr,
    verb |-> "GET",
    u |-> <<"u", "s", "e", "r", "/", "e", "m", "a", "i", "l", "s">>,
    opt |-> NoOpt, v |-> PtrToNilSlice, returns |-> "data" ]

\* func (s *UsersService) ListEmailsForUser: unnamed/part_000 509-524
ListEmailsForUser(user, opt) ==
  [ service |-> "UsersService", parses |-> FALSE, parseErr |-> NoErr,
    verb |-> "GET",
    u |-> Sprintf(<<"u", "s", "e", "r", "s", "/", "%d", "/", "e", "m", "a", "i", "l", "s">>,
                 <<user>>),
    opt |-> opt, v |-> PtrToNilSlice, returns |-> "data" ]

\* func (s *UsersService) GetEmail: unnamed/part_000 529-544
GetEmail(email) ==
  [ service |-> "UsersService", parses |-> FALSE, parseErr |-> NoErr,
    verb |-> "GET",
    u |-> Sprintf(<<"u", "s", "e", "r", "/", "e", "m", "a", "i", "l", "s", "/", "%d">>,
                 <<email>>),
    opt |-> NoOpt, v |-> NewStruct, returns |-> "data" ]

\* func (s *UsersService) AddEmail: unnamed/part_000 556-569
AddEmail(opt) ==
  [ service |-> "UsersService", parses |-> FALSE, parseErr |-> NoErr,
    verb |-> "POST",
    u |-> <<"u", "s", "e", "r", "/", "e", "m", "a", "i", "l", "s">>,
    opt |-> opt, v |-> NewStruct, returns |-> "data" ]

\* func (s *UsersService) AddEmailForUser: unnamed/part_000 575-590
AddEmailForUser(user, opt) ==
  [ service |-> "UsersService", parses |-> FALSE, parseErr |-> NoErr,
    verb |-> "POST",
    u |-> Sprintf(<<"u", "s", "e", "r", "s", "/", "%d", "/", "e", "m", "a", "i", "l", "s">>,
                 <<user>>),
    opt |-> opt, v |-> NewStruct, returns |-> "data" ]

\* func (s *UsersService) DeleteEmail: unnamed/part_000 598-607
DeleteEmail(email) ==
  [ service |-> "UsersService", parses |-> FALSE, parseErr |-> NoErr,
    verb |-> "DELETE",
    u |-> Sprintf(<<"u", "s", "e", "r", "/", "e", "m", "a", "i", "l", "s", "/", "%d">>,
                 <<email>>),
    opt |-> NoOpt, v |-> NilTarget, returns |-> "resp" ]

\* func (s *UsersService) DeleteEmailForUser: unnamed/part_000 614-623
DeleteEmailForUser(user, email) ==
  [ service |-> "UsersService", parses |-> FALSE, parseErr |-> NoErr,
    verb |-> "DELETE",
    u |-> Sprintf(<<"u", "s", "e", "r", "s", "/", "%d", "/", "e", "m", "a", "i", "l", "s", "/",
                 "%d">>,
                 <<user, email>>),
    opt |-> NoOpt, v |-> NilTarget, returns |-> "resp" ]

\* func (s *UsersService) GetAllImpersonationTokens: unnamed/part_000 654-669
GetAllImpersonationTokens(user, opt) ==
  [ service |-> "UsersService", parses |-> FALSE, parseErr |-> NoErr,
    verb |-> "GET",
    u |-> Sprintf(<<"u", "s", "e", "r", "s", "/", "%d", "/", "i", "m", "p", "e", "r", "s", "o",
                 "n", "a", "t", "i", "o", "n", "_", "t", "o", "k", "e", "n", "s">>,
                 <<user>>),
    opt |-> opt, v |-> PtrToNilSlice, returns |-> "data" ]

\* func (s *UsersService) GetImpersonationToken: unnamed/part_000 675-690
GetImpersonationToken(user, token) ==
  [ service |-> "UsersService", parses |-> FALSE, parseErr |-> NoErr,
    verb |-> "GET",
    u |-> Sprintf(<<"u", "s", "e", "r", "s", "/", "%d", "/", "i", "m", "p", "e", "r", "s", "o",
                 "n", "a", "t", "i", "o", "n", "_", "t", "o", "k", "e", "n", "s", "/", "%d">>,
                 <<user, token>>),
    opt |-> NoOpt, v |-> PtrToNewStruct, returns |-> "data" ]

\* func (s *UsersService) CreateImpersonationToken: unnamed/part_000 707-722
CreateImpersonationToken(user, opt) ==
  [ service |-> "UsersService", parses |-> FALSE, parseErr |-> NoErr,
    verb |-> "POST",
    u |-> Sprintf(<<"u", "s", "e", "r", "s", "/", "%d", "/", "i", "m", "p", "e", "r", "s", "o",
                 "n", "a", "t", "i", "o", "n", "_", "t", "o", "k", "e", "n", "s">>,
                 <<user>>),
    opt |-> opt, v |-> PtrToNewStruct, returns |-> "data" ]

\* func (s *UsersService) RevokeImpersonationToken: unnamed/part_000 728-737
RevokeImpersonationToken(user, token) ==
  [ service |-> "UsersService", parses |-> FALSE, parseErr |-> NoErr,
    verb |-> "DELETE",
    u |-> Sprintf(<<"u", "s", "e", "r", "s", "/", "%d", "/", "i", "m", "p", "e", "r", "s", "o",
                 "n", "a", "t", "i", "o", "n", "_", "t", "o", "k", "e", "n", "s", "/", "%d">>,
                 <<user, token>>),
    opt |-> NoOpt, v |-> NilTarget, returns |-> "resp" ]

\* func (s *UsersService) GetUserActivities: unnamed/part_000 760-773
GetUserActivities(opt) ==
  [ service |-> "UsersService", parses |-> FALSE, parseErr |-> NoErr,
    verb |-> "GET",
    u |-> <<"u", "s", "e", "r", "/", "a", "c", "t", "i", "v", "i", "t", "i", "e", "s">>,
    opt |-> opt, v |-> PtrToNilSlice, returns |-> "data" ]

\* func (s *UsersService) CurrentUserStatus: unnamed/part_000 789-802
CurrentUserStatus ==
  [ service |-> "UsersService", parses |-> FALSE, parseErr |-> NoErr,
    verb |-> "GET",
    u |-> <<"u", "s", "e", "r", "/", "s", "t", "a", "t", "u", "s">>,
    opt |-> NoOpt, v |-> NewStruct, returns |-> "data" ]

\* func (s *UsersService) GetUserStatus: unnamed/part_000 808-823
GetUserStatus(user) ==
  [ service |-> "UsersService", parses |-> FALSE, parseErr |-> NoErr,
    verb |-> "GET",
    u |-> Sprintf(<<"u", "s", "e", "r", "s", "/", "%d", "/", "s", "t", "a", "t", "u", "s">>,
                 <<user>>),
    opt |-> NoOpt, v |-> NewStruct, returns |-> "data" ]

\* func (s *UsersService) SetUserStatus: unnamed/part_000 838-851
SetUserStatus(opt) ==
  [ service |-> "UsersService", parses |-> FALSE, parseErr |-> NoErr,
    verb |-> "PUT",
    u |-> <<"u", "s", "e", "r", "/", "s", "t", "a", "t", "u", "s">>,
    opt |-> opt, v |-> NewStruct, returns |-> "data" ]

Methods ==
  {"ListCommits", "GetCommitRefs", "GetCommit", "CreateCommit", "GetCommitDiff",
    "GetCommitComments", "PostCommitComment", "GetCommitStatuses", "SetCommitStatus",
    "GetMergeRequestsByCommit", "CherryPickCommit", "ListUsers", "GetUser", "CreateUser",
    "ModifyUser", "DeleteUser", "CurrentUser", "ListSSHKeys", "ListSSHKeysForUser",
    "GetSSHKey", "AddSSHKey", "AddSSHKeyForUser", "DeleteSSHKey", "DeleteSSHKeyForUser",
    "BlockUser", "UnblockUser", "ListEmails", "ListEmailsForUser", "GetEmail", "AddEmail",
    "AddEmailForUser", "DeleteEmail", "DeleteEmailForUser", "GetAllImpersonationTokens",
    "GetImpersonationToken", "CreateImpersonationToken", "RevokeImpersonationToken",
    "GetUserActivities", "CurrentUserStatus", "GetUserStatus", "SetUserStatus"}

Plan(name, a) ==
  CASE name = "ListCommits" -> ListCommits(a.pid, a.opt)
    [] name = "GetCommitRefs" -> GetCommitRefs(a.pid, a.sha, a.opt)
    [] name = "GetCommit" -> GetCommit(a.pid, a.sha)
    [] name = "CreateCommit" -> CreateCommit(a.pid, a.opt)
    [] name = "GetCommitDiff" -> GetCommitDiff(a.pid, a.sha, a.opt)
    [] name = "GetCommitComments" -> GetCommitComments(a.pid, a.sha, a.opt)
    [] name = "PostCommitComment" -> PostCommitComment(a.pid, a.sha, a.opt)
    [] name = "GetCommitStatuses" -> GetCommitStatuses(a.pid, a.sha, a.opt)
    [] name = "SetCommitStatus" -> SetCommitStatus(a.pid, a.sha, a.opt)
    [] name = "GetMergeRequestsByCommit" -> GetMergeRequestsByCommit(a.pid, a.sha)
    [] name = "CherryPickCommit" -> CherryPickCommit(a.pid, a.sha, a.opt)
    [] name = "ListUsers" -> ListUsers(a.opt)
    [] name = "GetUser" -> GetUser(a.user)
    [] name = "CreateUser" -> CreateUser(a.opt)
    [] name = "ModifyUser" -> ModifyUser(a.user, a.opt)
    [] name = "DeleteUser" -> DeleteUser(a.user)
    [] name = "CurrentUser" -> CurrentUser
    [] name = "ListSSHKeys" -> ListSSHKeys
    [] name = "ListSSHKeysForUser" -> ListSSHKeysForUser(a.user, a.opt)
    [] name = "GetSSHKey" -> GetSSHKey(a.id)
    [] name = "AddSSHKey" -> AddSSHKey(a.opt)
    [] name = "AddSSHKeyForUser" -> AddSSHKeyForUser(a.user, a.opt)
    [] name = "DeleteSSHKey" -> DeleteSSHKey(a.id)
    [] name = "DeleteSSHKeyForUser" -> DeleteSSHKeyForUser(a.user, a.id)
    [] name = "BlockUser" -> BlockUser(a.user)
    [] name = "UnblockUser" -> UnblockUser(a.user)
    [] name = "ListEmails" -> ListEmails
    [] name = "ListEmailsForUser" -> ListEmailsForUser(a.user, a.opt)
    [] name = "GetEmail" -> GetEmail(a.id)
    [] name = "AddEmail" -> AddEmail(a.opt)
    [] name = "AddEmailForUser" -> AddEmailForUser(a.user, a.opt)
    [] name = "DeleteEmail" -> DeleteEmail(a.id)
    [] name = "DeleteEmailForUser" -> DeleteEmailForUser(a.user, a.id)
    [] name = "GetAllImpersonationTokens" -> GetAllImpersonationTokens(a.user, a.opt)
    [] name = "GetImpersonationToken" -> GetImpersonationToken(a.user, a.id)
    [] name = "CreateImpersonationToken" -> CreateImpersonationToken(a.user, a.opt)
    [] name = "RevokeImpersonationToken" -> RevokeImpersonationToken(a.user, a.id)
    [] name = "GetUserActivities" -> GetUserActivities(a.opt)
    [] name = "CurrentUserStatus" -> CurrentUserStatus
    [] name = "GetUserStatus" -> GetUserStatus(a.user)
    [] name = "SetUserStatus" -> SetUserStatus(a.opt)

ArgsOf(name) ==
  CASE name = "ListCommits" ->
       [pid : Pids, sha : {<<>>}, user : {0}, id : {0}, opt : OptValues("ListCommitsOptions")]
    [] name = "GetCommitRefs" ->
       [pid : Pids, sha : Shas, user : {0}, id : {0}, opt : OptValues("GetCommitRefsOptions")]
    [] name = "GetCommit" ->
       [pid : Pids, sha : Shas, user : {0}, id : {0}, opt : {NoOpt}]
    [] name = "CreateCommit" ->
       [pid : Pids, sha : {<<>>}, user : {0}, id : {0}, opt : OptValues("CreateCommitOptions")]
    [] name = "GetCommitDiff" ->
       [pid : Pids, sha : Shas, user : {0}, id : {0}, opt : OptValues("GetCommitDiffOptions")]
    [] name = "GetCommitComments" ->
       [pid : Pids, sha : Shas, user : {0}, id : {0}, opt : OptValues("GetCommitCommentsOptions")]
    [] name = "PostCommitComment" ->
       [pid : Pids, sha : Shas, user : {0}, id : {0}, opt : OptValues("PostCommitCommentOptions")]
    [] name = "GetCommitStatuses" ->
       [pid : Pids, sha : Shas, user : {0}, id : {0}, opt : OptValues("GetCommitStatusesOptions")]
    [] name = "SetCommitStatus" ->
       [pid : Pids, sha : Shas, user : {0}, id : {0}, opt : OptValues("SetCommitStatusOptions")]
    [] name = "GetMergeRequestsByCommit" ->
       [pid : Pids, sha : Shas, user : {0}, id : {0}, opt : {NoOpt}]
    [] name = "CherryPickCommit" ->
       [pid : Pids, sha : Shas, user : {0}, id : {0}, opt : OptValues("CherryPickCommitOptions")]
    [] name = "ListUsers" ->
       [pid : {NoPid}, sha : {<<>>}, user : {0}, id : {0}, opt : OptValues("ListUsersOptions")]
    [] name = "GetUser" ->
       [pid : {NoPid}, sha : {<<>>}, user : Users, id : {0}, opt : {NoOpt}]
    [] name = "CreateUser" ->
       [pid : {NoPid}, sha : {<<>>}, user : {0}, id : {0}, opt : OptValues("CreateUserOptions")]
    [] name = "ModifyUser" ->
       [pid : {NoPid}, sha : {<<>>}, user : Users, id : {0}, opt : OptValues("ModifyUserOptions")]
    [] name = "DeleteUser" ->
       [pid : {NoPid}, sha : {<<>>}, user : Users, id : {0}, opt : {NoOpt}]
    [] name = "CurrentUser" ->
       [pid : {NoPid}, sha : {<<>>}, user : {0}, id : {0}, opt : {NoOpt}]
    [] name = "ListSSHKeys" ->
       [pid : {NoPid}, sha : {<<>>}, user : {0}, id : {0}, opt : {NoOpt}]
    [] name = "ListSSHKeysForUser" ->
       [pid : {NoPid}, sha : {<<>>}, user : Users, id : {0}, opt : OptValues("ListSSHKeysForUserOptions")]
    [] name = "GetSSHKey" ->
       [pid : {NoPid}, sha : {<<>>}, user : {0}, id : Ids, opt : {NoOpt}]
    [] name = "AddSSHKey" ->
       [pid : {NoPid}, sha : {<<>>}, user : {0}, id : {0}, opt : OptValues("AddSSHKeyOptions")]
    [] name = "AddSSHKeyForUser" ->
       [pid : {NoPid}, sha : {<<>>}, user : Users, id : {0}, opt : OptValues("AddSSHKeyOptions")]
    [] name = "DeleteSSHKey" ->
       [pid : {NoPid}, sha : {<<>>}, user : {0}, id : Ids, opt : {NoOpt}]
    [] name = "DeleteSSHKeyForUser" ->
       [pid : {NoPid}, sha : {<<>>}, user : Users, id : Ids, opt : {NoOpt}]
    [] name = "BlockUser" ->
       [pid : {NoPid}, sha : {<<>>}, user : Users, id : {0}, opt : {NoOpt}]
    [] name = "UnblockUser" ->
       [pid : {NoPid}, sha : {<<>>}, user : Users, id : {0}, opt : {NoOpt}]
    [] name = "ListEmails" ->
       [pid : {NoPid}, sha : {<<>>}, user : {0}, id : {0}, opt : {NoOpt}]
    [] name = "ListEmailsForUser" ->
       [pid : {NoPid}, sha : {<<>>}, user : Users, id : {0}, opt : OptValues("ListEmailsForUserOptions")]
    [] name = "GetEmail" ->
       [pid : {NoPid}, sha : {<<>>}, user : {0}, id : Ids, opt : {NoOpt}]
    [] name = "AddEmail" ->
       [pid : {NoPid}, sha : {<<>>}, user : {0}, id : {0}, opt : OptValues("AddEmailOptions")]
    [] name = "AddEmailForUser" ->
       [pid : {NoPid}, sha : {<<>>}, user : Users, id : {0}, opt : OptValues("AddEmailOptions")]
    [] name = "DeleteEmail" ->
       [pid : {NoPid}, sha : {<<>>}, user : {0}, id : Ids, opt : {NoOpt}]
    [] name = "DeleteEmailForUser" ->
       [pid : {NoPid}, sha : {<<>>}, user : Users, id : Ids, opt : {NoOpt}]
    [] name = "GetAllImpersonationTokens" ->
       [pid : {NoPid}, sha : {<<>>}, user : Users, id : {0}, opt : OptValues("GetAllImpersonationTokensOptions")]
    [] name = "GetImpersonationToken" ->
       [pid : {NoPid}, sha : {<<>>}, user : Users, id : Ids, opt : {NoOpt}]
    [] name = "CreateImpersonationToken" ->
       [pid : {NoPid}, sha : {<<>>}, user : Users, id : {0}, opt : OptValues("CreateImpersonationTokenOptions")]
    [] name = "RevokeImpersonationToken" ->
       [pid : {NoPid}, sha : {<<>>}, user : Users, id : Ids, opt : {NoOpt}]
    [] name = "GetUserActivities" ->
       [pid : {NoPid}, sha : {<<>>}, user : {0}, id : {0}, opt : OptValues("GetUserActivitiesOptions")]
    [] name = "CurrentUserStatus" ->
       [pid : {NoPid}, sha : {<<>>}, user : {0}, id : {0}, opt : {NoOpt}]
    [] name = "GetUserStatus" ->
       [pid : {NoPid}, sha : {<<>>}, user : Users, id : {0}, opt : {NoOpt}]
    [] name = "SetUserStatus" ->
       [pid : {NoPid}, sha : {<<>>}, user : {0}, id : {0}, opt : OptValues("UserStatusOptions")]

(* -------------------------- how methods return ------------------------- *)

Result(data, resp, err) == [data |-> data, resp |-> resp, err |-> err]
NoResult == Result(NilVal, NilResp, NoErr)

\* "if err != nil { return nil, nil, err }" after parseID and NewRequest (for
\* the methods without data: "return nil, err", "return err").
EarlyReturn(err) == Result(NilVal, NilResp, err)

\* Mutant of ReturnData: the error of client.Do is wrapped in a new error.
ReturnData_WrapErr(d) ==
  IF d.err # NoErr THEN Result(NilVal, d.resp, Err("request failed"))
  ELSE Result(d.v, d.resp, d.err)

\* Mutant of ReturnData: the first decoded element is dropped.
ReturnData_DropFirst(d) ==
  IF d.err # NoErr THEN Result(NilVal, d.resp, d.err)
  ELSE Result(IF Len(d.v.items) > 1 THEN Val(FALSE, Tail(d.v.items)) ELSE d.v,
              d.resp, d.err)

\* Mutant of ReturnData: what was decoded is returned with the error.
ReturnData_KeepPartial(d) == Result(d.v, d.resp, d.err)

\* Mutant of ReturnData: on an error the response is dropped with the data.
ReturnData_DropResp(d) ==
  IF d.err # NoErr THEN Result(NilVal, NilResp, d.err) ELSE Result(d.v, d.resp, d.err)

\* "if err != nil { return nil, resp, err }; return c, resp, err"
ReturnData(d) ==
  IF d.err # NoErr THEN Result(NilVal, d.resp, d.err) ELSE Result(d.v, d.resp, d.err)

\* Mutant of ReturnResp: a delete always reports success.
ReturnResp_IgnoreErr(d) == Result(NilVal, d.resp, NoErr)

\* Mutant of ReturnResp: a response outside 2xx is turned into an error.
ReturnResp_CheckStatus(d) ==
  IF d.err = NoErr /\ ~d.resp.isNil
     /\ ~(d.resp.StatusCode >= 200 /\ d.resp.StatusCode < 300)
    THEN Result(NilVal, d.resp,
                [msg |-> "Received unexpected result code: %d", code |-> d.resp.StatusCode])
    ELSE Result(NilVal, d.resp, d.err)

\* "return s.client.Do(req, nil)"
ReturnResp(d) == Result(NilVal, d.resp, d.err)

\* Mutant of BlockUserStatus: every 2xx status code is a success.
BlockUserStatus_Any2xx(code) ==
  CASE code >= 200 /\ code < 300 -> NoErr
    [] code = StatusForbidden ->
         Err("Cannot block a user that is already blocked by LDAP synchronization")
    [] code = StatusNotFound -> Err("User does not exist")
    [] OTHER -> [msg |-> "Received unexpected result code: %d", code |-> code]

\* The switch on resp.StatusCode of BlockUser.
BlockUserStatus(code) ==
  CASE code = StatusCreated -> NoErr
    [] code = StatusForbidden ->
         Err("Cannot block a user that is already blocked by LDAP synchronization")
    [] code = StatusNotFound -> Err("User does not exist")
    [] OTHER -> [msg |-> "Received unexpected result code: %d", code |-> code]

\* Mutant of UnblockUserStatus: the 403 message of BlockUser.
UnblockUserStatus_BlockMessage(code) ==
  CASE code = StatusCreated -> NoErr
    [] code = StatusForbidden ->
         Err("Cannot block a user that is already blocked by LDAP synchronization")
    [] code = StatusNotFound -> Err("User does not exist")
    [] OTHER -> [msg |-> "Received unexpected result code: %d", code |-> code]

\* Mutant of UnblockUserStatus: 200 is a success as 201 is.
UnblockUserStatus_Also200(code) ==
  CASE code \in {200, StatusCreated} -> NoErr
    [] code = StatusForbidden ->
         Err("Cannot unblock a user that is blocked by LDAP synchronization")
    [] code = StatusNotFound -> Err("User does not exist")
    [] OTHER -> [msg |-> "Received unexpected result code: %d", code |-> code]

\* The switch on resp.StatusCode of UnblockUser.
UnblockUserStatus(code) ==
  CASE code = StatusCreated -> NoErr
    [] code = StatusForbidden ->
         Err("Cannot unblock a user that is blocked by LDAP synchronization")
    [] code = StatusNotFound -> Err("User does not exist")
    [] OTHER -> [msg |-> "Received unexpected result code: %d", code |-> code]

\* Mutant of ReturnErr: the switch on the status code comes before the look
\* at the error.
ReturnErr_StatusFirst(d, status) ==
  IF ~d.resp.isNil /\ d.resp.StatusCode \in {StatusForbidden, StatusNotFound}
    THEN Result(NilVal, NilResp, status)
  ELSE IF d.err # NoErr THEN Result(NilVal, NilResp, d.err)
  ELSE Result(NilVal, NilResp, status)

\* "if err != nil { return err }", then the switch; the response is dropped.
ReturnErr(d, status) ==
  IF d.err # NoErr THEN Result(NilVal, NilResp, d.err)
  ELSE Result(NilVal, NilResp, status)

\* What the method returns once client.Do has returned d.
Finish(returns, d) ==
  CASE returns = "data" -> ReturnData(d)
    [] returns = "resp" -> ReturnResp(d)
    [] returns = "BlockUser" -> ReturnErr(d, BlockUserStatus(d.resp.StatusCode))
    [] returns = "UnblockUser" -> ReturnErr(d, UnblockUserStatus(d.resp.StatusCode))

\* Mutant of AfterDo: a failed client.Do is tried again.
AfterDo_Retry(d) == IF d.err # NoErr THEN "do" ELSE "returned"

\* Mutant of AfterDo: after a successful response the next page is requested.
AfterDo_NextPage(d) == IF d.err = NoErr THEN "newRequest" ELSE "returned"

\* Where a call goes after client.Do returned: every method returns.
AfterDo(d) == "returned"

(* -------------------------------- state -------------------------------- *)

VARIABLES
  call,      \* per caller: the call in progress or last returned
  client,    \* per service: its client handle
  deleted    \* the resources a delete call has reported deleted (history)

vars == <<call, client, deleted>>

Callers == {"c1"}
Services == {"UsersService", "CommitsService"}

NoDo == [resp |-> NilResp, err |-> NoErr, v |-> NilVal, body |-> JNull]
NoArgs == [pid |-> NoPid, sha |-> <<>>, user |-> 0, id |-> 0, opt |-> NoOpt]

Idle ==
  [pc |-> "idle", name |-> "", args |-> NoArgs, req |-> NoReq, do |-> NoDo,
   reqErr |-> NoErr, ret |-> NoResult, nParseID |-> 0, nNewRequest |-> 0, nDo |-> 0,
   again |-> FALSE]

Init ==
  /\ call = [c \in Callers |-> Idle]
  /\ client = [s \in Services |-> "client"]
  /\ deleted = {}

\* Mutant of PlanOf: the arguments are read from a slot all callers share, so
\* a call in progress sees those of the other call in progress.
PlanOf_SharedArgs(c) ==
  LET others == {o \in DOMAIN call \ {c} : call[o].pc # "idle"} IN
  IF others = {} THEN Plan(call[c].name, call[c].args)
  ELSE Plan(call[c].name, call[CHOOSE o \in others : TRUE].args)

\* The verb, path, options and decode target of the call of c, from the
\* method's own parameters.
PlanOf(c) == Plan(call[c].name, call[c].args)

\* The resource a call addresses: its verb and path.
Resource(p) == <<p.verb, p.u>>

\* A caller calls a method of one of the services.
Begin(c, name, a) ==
  /\ call[c].pc = "idle"
  /\ call' = [call EXCEPT ![c] =
       [Idle EXCEPT !.pc = IF Plan(name, a).parses THEN "parseID" ELSE "newRequest",
                    !.name = name, !.args = a,
                    !.again = Resource(Plan(name, a)) \in deleted]]
  /\ UNCHANGED <<client, deleted>>

Call(c) ==
  \E name \in Methods : \E a \in ArgsOf(name) : Begin(c, name, a)

\* Mutant of ParseIDStep: the parsed project is stored back into the
\* caller's identifier.
ParseIDStep_StoresProject(c) ==
  /\ call[c].pc = "parseID"
  /\ LET p == PlanOf(c) IN
       call' = [call EXCEPT ![c].nParseID = @ + 1,
                            ![c].pc = IF p.parseErr # NoErr THEN "returned" ELSE "newRequest",
                            ![c].ret = IF p.parseErr # NoErr THEN EarlyReturn(p.parseErr) ELSE @,
                            ![c].args.pid = IF p.parseErr # NoErr THEN @
                                            ELSE StrPid(parseID(@).id)]
  /\ UNCHANGED <<client, deleted>>

\* Mutant of ParseIDStep: the error of parseID is not looked at.
ParseIDStep_IgnoresError(c) ==
  /\ call[c].pc = "parseID"
  /\ call' = [call EXCEPT ![c].nParseID = @ + 1, ![c].pc = "newRequest"]
  /\ UNCHANGED <<client, deleted>>

\* project, err := parseID(pid)
ParseIDStep(c) ==
  /\ call[c].pc = "parseID"
  /\ LET p == PlanOf(c) IN
       call' = [call EXCEPT ![c].nParseID = @ + 1,
                            ![c].pc = IF p.parseErr # NoErr THEN "returned" ELSE "newRequest",
                            ![c].ret = IF p.parseErr # NoErr THEN EarlyReturn(p.parseErr) ELSE @]
  /\ UNCHANGED <<client, deleted>>

\* req, err := s.client.NewRequest(verb, u, opt, options)
NewRequestStep(c) ==
  /\ call[c].pc = "newRequest"
  /\ LET p == PlanOf(c) IN
       \E r \in NewRequest(p.verb, p.u, p.opt) :
         call' = [call EXCEPT ![c].nNewRequest = @ + 1,
                              ![c].req = r.req,
                              ![c].reqErr = r.err,
                              ![c].pc = IF r.err # NoErr THEN "returned" ELSE "do",
                              ![c].ret = IF r.err # NoErr THEN EarlyReturn(r.err) ELSE @]
  /\ UNCHANGED <<client, deleted>>

\* resp, err := s.client.Do(req, v), and the rest of the method.
DoCore(c) ==
  /\ call[c].pc = "do"
  /\ LET p == PlanOf(c) IN
       \E d \in Do(call[c].req, p.v) :
         call' = [call EXCEPT ![c].nDo = @ + 1,
                              ![c].do = d,
                              ![c].pc = AfterDo(d),
                              ![c].ret = IF AfterDo(d) = "returned"
                                           THEN Finish(p.returns, d) ELSE @]
  /\ UNCHANGED client

DoStep(c) == DoCore(c) /\ UNCHANGED deleted

\* The caller has the result; it may call again.
Return(c) ==
  /\ call[c].pc = "returned"
  /\ call' = [call EXCEPT ![c] = Idle]
  /\ UNCHANGED <<client, deleted>>

Next ==
  \E c \in Callers :
    Call(c) \/ ParseIDStep(c) \/ NewRequestStep(c) \/ DoStep(c) \/ Return(c)

Spec == Init /\ [][Next]_vars

(* ----- delete calls only, remembering what has been reported deleted ---- *)

DeleteMethods ==
  {"DeleteUser", "DeleteSSHKey", "DeleteSSHKeyForUser", "DeleteEmail",
   "DeleteEmailForUser", "RevokeImpersonationToken"}

CallDelete(c) ==
  \E name \in DeleteMethods : \E a \in ArgsOf(name) : Begin(c, name, a)

\* As DoStep; a delete that returns no error has deleted its resource.
DoDelete(c) ==
  /\ DoCore(c)
  /\ deleted' = IF call'[c].ret.err = NoErr /\ Cardinality(deleted) < MaxDeleted
                  THEN deleted \cup {Resource(PlanOf(c))} ELSE deleted

NextDelete ==
  \E c \in Callers : CallDelete(c) \/ NewRequestStep(c) \/ DoDelete(c) \/ Return(c)

SpecDelete == Init /\ [][NextDelete]_vars

(* ------------ two callers at once, their steps interleaved ------------- *)

Pair == {"c1", "c2"}

\* The calls the two callers make: methods without and with data, of both
\* services (GetCommit of one commit, by a project id that parses or not).
PairCalls ==
  {<<name, a>> : name \in {"DeleteUser", "BlockUser"}, a \in ArgsOf("DeleteUser")}
    \cup {<<"GetCommit", a>> :
           a \in {x \in ArgsOf("GetCommit") :
                  x.sha = <<"c">> /\ x.pid \in {IntPid(7), BadPid}}}

InitPair ==
  /\ call = [c \in Pair |-> Idle]
  /\ client = [s \in Services |-> "client"]
  /\ deleted = {}

CallPair(c) == \E nc \in PairCalls : Begin(c, nc[1], nc[2])

NextPair ==
  \E c \in Pair :
    CallPair(c) \/ ParseIDStep(c) \/ NewRequestStep(c) \/ DoStep(c) \/ Return(c)

SpecPair == InitPair /\ [][NextPair]_vars

(* ============================== the claims ============================== *)

Returned(c) == call[c].pc = "returned"
Built(c) == call[c].pc = "do"

\* parseID was called and failed; NewRequest was called and failed.
ParseFailed(c) == call[c].nParseID = 1 /\ parseID(call[c].args.pid).err # NoErr
NewRequestFailed(c) == call[c].nNewRequest = 1 /\ call[c].reqErr # NoErr

BlockMethods == {"BlockUser", "UnblockUser"}

ListMethods ==
  {"ListUsers", "ListSSHKeys", "ListSSHKeysForUser", "ListEmails", "ListEmailsForUser",
   "GetAllImpersonationTokens", "GetUserActivities", "ListCommits", "GetCommitRefs",
   "GetCommitDiff", "GetCommitComments", "GetCommitStatuses", "GetMergeRequestsByCommit"}

Count(s, ch) == Cardinality({i \in 1..Len(s) : s[i] = ch})

(* C1, as stated: every call that has returned, whatever its arguments and
   outcome, has invoked client.Do exactly once. *)
C1_ExactlyOneRoundTrip ==
  \A c \in Callers : Returned(c) => call[c].nDo = 1

(* C1, amended: no call invokes client.Do more than once, and a call that has
   returned has invoked it exactly once unless parseID or client.NewRequest
   failed, in which case it has not invoked it at all. *)
C1_OneRoundTripUnlessEarlyFailure ==
  \A c \in Callers :
    /\ call[c].nDo <= 1
    /\ Returned(c) =>
         (call[c].nDo = IF ParseFailed(c) \/ NewRequestFailed(c) THEN 0 ELSE 1)

\* A method that parses its project id has returned after one round trip.
C1_Witness ==
  \E c \in Callers :
    Returned(c) /\ call[c].nParseID = 1 /\ call[c].nNewRequest = 1 /\ call[c].nDo = 1

(* C2: no method retries or paginates.  Once client.Do has been invoked in a
   call, whatever it returned, the only step left to the call is handing its
   result to the caller: no further request is built or sent; and a list
   method that returns without error returns the data of that one response. *)
C2_NoRetryNoPaging ==
  [][\A c \in Callers :
       /\ call[c].nDo = 1 => (call'[c] = call[c] \/ call'[c] = Idle)
       /\ call'[c].nDo <= 1
       /\ (call'[c].pc = "returned" /\ call'[c].name \in ListMethods
           /\ call'[c].ret.err = NoErr) => call'[c].ret.data = call'[c].do.v]_vars

\* A list method whose one round trip failed has returned.
C2_Witness ==
  \E c \in Callers :
    /\ Returned(c) /\ call[c].name = "ListUsers"
    /\ call[c].nDo = 1 /\ call[c].do.err = ErrTransport

C3_Forbidden(name) ==
  IF name = "BlockUser"
    THEN Err("Cannot block a user that is already blocked by LDAP synchronization")
    ELSE Err("Cannot unblock a user that is blocked by LDAP synchronization")

C3_NotFound == Err("User does not exist")

(* C3: when client.Do returns no error, BlockUser and UnblockUser return for
   status 403 a fixed error and for status 404 a different fixed error, the
   same for every user id and response; the 404 error is common to the two
   methods and the 403 error is the method's own. *)
C3_FixedStatusErrors ==
  /\ C3_Forbidden("BlockUser") # C3_Forbidden("UnblockUser")
  /\ \A c \in Callers :
       (Returned(c) /\ call[c].name \in BlockMethods
        /\ call[c].nDo = 1 /\ call[c].do.err = NoErr) =>
         /\ call[c].do.resp.StatusCode = 403 =>
              /\ call[c].ret.err = C3_Forbidden(call[c].name)
              /\ call[c].ret.err # C3_NotFound
         /\ call[c].do.resp.StatusCode = 404 => call[c].ret.err = C3_NotFound

\* UnblockUser has returned on a 403 response.
C3_Witness ==
  \E c \in Callers :
    /\ Returned(c) /\ call[c].name = "UnblockUser" /\ call[c].args.user = 42
    /\ call[c].do.err = NoErr /\ call[c].do.resp.StatusCode = 403

Is2xx(code) == code >= 200 /\ code < 300

IsGeneric(err, code) ==
  err = [msg |-> "Received unexpected result code: %d", code |-> code]

(* C4, as stated: BlockUser and UnblockUser return the generic error for
   exactly the non-2xx status codes other than 403 and 404, and return nil
   for every 2xx status code. *)
C4_Every2xxSucceeds ==
  \A c \in Callers :
    (Returned(c) /\ call[c].name \in BlockMethods
     /\ call[c].nDo = 1 /\ call[c].do.err = NoErr) =>
      LET code == call[c].do.resp.StatusCode IN
      /\ Is2xx(code) => call[c].ret.err = NoErr
      /\ IsGeneric(call[c].ret.err, code) <=> (~Is2xx(code) /\ code \notin {403, 404})

(* C4, amended: BlockUser and UnblockUser return nil for status 201 only, and
   return the generic error, carrying the status code, for exactly the status
   codes other than 201, 403 and 404, the other 2xx codes included. *)
C4_Only201Succeeds ==
  \A c \in Callers :
    (Returned(c) /\ call[c].name \in BlockMethods
     /\ call[c].nDo = 1 /\ call[c].do.err = NoErr) =>
      LET code == call[c].do.resp.StatusCode IN
      /\ call[c].ret.err = NoErr <=> code = 201
      /\ IsGeneric(call[c].ret.err, code) <=> code \notin {201, 403, 404}

\* BlockUser has returned the generic error on a 200 response.
C4_Witness ==
  \E c \in Callers :
    /\ Returned(c) /\ call[c].name = "BlockUser"
    /\ call[c].do.err = NoErr /\ call[c].do.resp.StatusCode = 200
    /\ IsGeneric(call[c].ret.err, 200)

(* C5, as stated: in every request built from an options struct, each pointer
   or slice field that is unset is absent from the encoded options, and each
   field that is set is present under its wire name. *)
C5_UnsetOmittedSetEncoded ==
  \A c \in Callers :
    (Built(c) /\ call[c].req.opt # NoOpt) =>
      \A f \in {g \in OptionsType(call[c].req.opt.type) : g.kind # "value"} :
        LET w == WireName(f, call[c].req.enc) IN
        IF f.field \in call[c].req.opt.set
          THEN [name |-> w, val |-> "value"] \in call[c].req.params
          ELSE \A e \in call[c].req.params : e.name # w

\* The path a method builds for identifiers that need no escaping.
Template(c) ==
  Plan(call[c].name, [call[c].args EXCEPT !.pid = IntPid(7), !.sha = <<"c">>]).u

(* C6, as stated: the path of every request a CommitsService method builds
   has the segments of the method's path template, whatever the project id
   and the sha contain: as many "/" as the template and no "?" or "#". *)
C6_PathKeepsTemplateSegments ==
  \A c \in Callers :
    (Built(c) /\ PlanOf(c).service = "CommitsService") =>
      /\ Count(call[c].req.path, "/") = Count(Template(c), "/")
      /\ Count(call[c].req.path, "?") = 0
      /\ Count(call[c].req.path, "#") = 0

\* A CommitsService request has been built for a sha containing "/".
C6_Witness ==
  \E c \in Callers :
    /\ Built(c) /\ call[c].name = "GetMergeRequestsByCommit"
    /\ Count(call[c].args.sha, "/") > 0
    /\ Count(call[c].req.path, "/") = Count(Template(c), "/")

C7_DigitValue(ch) == CHOOSE d \in 0..9 : Digits[d + 1] = ch

RECURSIVE C7_Atoi(_)
C7_Atoi(s) ==
  IF s = <<>> THEN 0
  ELSE C7_Atoi(SubSeq(s, 1, Len(s) - 1)) * 10 + C7_DigitValue(s[Len(s)])

\* s is the decimal form of n: an optional "-", then digits without a leading
\* zero, whose value is n.
C7_IsDecimalOf(s, n) ==
  LET body == IF n < 0 THEN Tail(s) ELSE s IN
  /\ Len(s) >= 1
  /\ n < 0 => Head(s) = "-"
  /\ Len(body) >= 1
  /\ \A i \in 1..Len(body) : \E d \in 1..10 : Digits[d] = body[i]
  /\ Len(body) > 1 => body[1] # "0"
  /\ C7_Atoi(body) = IF n < 0 THEN -n ELSE n

C7_IsUsersPath(path, n) ==
  /\ Len(path) > 6
  /\ SubSeq(path, 1, 6) = <<"u", "s", "e", "r", "s", "/">>
  /\ C7_IsDecimalOf(SubSeq(path, 7, Len(path)), n)

C7_Verb(name) ==
  CASE name = "GetUser" -> "GET"
    [] name = "ModifyUser" -> "PUT"
    [] name = "DeleteUser" -> "DELETE"

(* C7, as stated: the requests of GetUser(n), ModifyUser(n) and DeleteUser(n)
   have the path "users/" followed by the decimal form of n and no options,
   and differ only in the verb: GET, PUT, DELETE. *)
C7_SamePathNoOptions ==
  \A c \in Callers :
    (Built(c) /\ call[c].name \in {"GetUser", "ModifyUser", "DeleteUser"}) =>
      /\ C7_IsUsersPath(call[c].req.path, call[c].args.user)
      /\ call[c].req.verb = C7_Verb(call[c].name)
      /\ call[c].req.opt = NoOpt

(* C7, amended: the requests of GetUser(n), ModifyUser(n, opt) and
   DeleteUser(n) have the path "users/" followed by the decimal form of n and
   the verbs GET, PUT and DELETE; GetUser and DeleteUser pass no options,
   ModifyUser passes the options of its caller. *)
C7_SamePathOwnOptions ==
  \A c \in Callers :
    (Built(c) /\ call[c].name \in {"GetUser", "ModifyUser", "DeleteUser"}) =>
      /\ C7_IsUsersPath(call[c].req.path, call[c].args.user)
      /\ call[c].req.verb = C7_Verb(call[c].name)
      /\ call[c].req.opt = IF call[c].name = "ModifyUser" THEN call[c].args.opt ELSE NoOpt

\* ModifyUser has built its request for a negative id with options set.
C7_Witness ==
  \E c \in Callers :
    /\ Built(c) /\ call[c].name = "ModifyUser"
    /\ call[c].args.user = -3 /\ call[c].req.opt.set = {"Email"}

CurrentDeletes == {"DeleteUser", "DeleteSSHKey", "DeleteEmail"}

(* C8, as stated: a DeleteUser, DeleteSSHKey or DeleteEmail call on a resource
   that an earlier call has already deleted, once its request has been sent,
   returns a nil error as the earlier call did. *)
C8_RepeatedDeleteSucceeds ==
  \A c \in Callers :
    (Returned(c) /\ call[c].name \in CurrentDeletes /\ call[c].again
     /\ call[c].nDo = 1) =>
      call[c].ret.err = NoErr

(* C8, amended: DeleteUser, DeleteSSHKey and DeleteEmail keep nothing from
   earlier calls and check nothing themselves: a call, repeated or not,
   returns the response and the error that client.Do returned to it (or the
   error of client.NewRequest), so a repeated delete returns nil exactly when
   client.Do returns nil for that call. *)
C8_DeleteReturnsWhatDoReturned ==
  \A c \in Callers :
    (Returned(c) /\ call[c].name \in CurrentDeletes) =>
      IF call[c].nDo = 1
        THEN call[c].ret.err = call[c].do.err /\ call[c].ret.resp = call[c].do.resp
        ELSE call[c].ret.err = call[c].reqErr /\ call[c].reqErr # NoErr

\* A delete of an already deleted user has returned, reporting a failure.
C8_Witness ==
  \E c \in Callers :
    /\ Returned(c) /\ call[c].name = "DeleteUser" /\ call[c].again
    /\ call[c].nDo = 1 /\ call[c].ret.err = ErrResponse
    /\ call[c].ret.resp.StatusCode = 404

(* C9: the error a method returns for a failure of parseID, client.NewRequest
   or client.Do is the error value that step produced; a method returns an
   error no step produced only in BlockUser and UnblockUser, after client.Do
   returned no error. *)
C9_ErrorsPassedThrough ==
  \A c \in Callers :
    Returned(c) =>
      /\ ParseFailed(c) => call[c].ret.err = parseID(call[c].args.pid).err
      /\ NewRequestFailed(c) => call[c].ret.err = call[c].reqErr
      /\ (call[c].nDo = 1 /\ call[c].do.err # NoErr) => call[c].ret.err = call[c].do.err
      /\ call[c].ret.err \notin (ClientErrors \cup {NoErr}) =>
           /\ call[c].name \in BlockMethods
           /\ call[c].nDo = 1 /\ call[c].do.err = NoErr

\* CreateCommit has returned the decode error of client.Do.
C9_Witness ==
  \E c \in Callers :
    /\ Returned(c) /\ call[c].name = "CreateCommit"
    /\ call[c].do.err = ErrDecode /\ call[c].ret.err = ErrDecode

(* C10: a list method that returns without error on a response carrying a
   JSON array returns a slice with one element per element of the array, in
   the order of the array. *)
C10_ListKeepsLengthAndOrder ==
  \A c \in Callers :
    (Returned(c) /\ call[c].name \in ListMethods
     /\ call[c].ret.err = NoErr /\ call[c].do.body.kind = "array") =>
      /\ ~call[c].ret.data.isNil
      /\ Len(call[c].ret.data.items) = Len(call[c].do.body.elems)
      /\ \A i \in 1..Len(call[c].do.body.elems) :
           call[c].ret.data.items[i].ID = call[c].do.body.elems[i]

\* GetCommitRefs has returned two elements that are not in ascending order.
C10_Witness ==
  \E c \in Callers :
    /\ Returned(c) /\ call[c].name = "GetCommitRefs" /\ call[c].ret.err = NoErr
    /\ call[c].do.body.elems = <<2, 1>>
    /\ Len(call[c].ret.data.items) = 2

(* ---------------------------------- C11 --------------------------------- *)

\* The request of a call is the one its own arguments give, and what it
\* returns is what its method makes of its own response.
C11_OwnRequestOwnResult ==
  \A c \in Pair :
    LET p == Plan(call[c].name, call[c].args) IN
    /\ (Built(c) \/ (Returned(c) /\ call[c].nDo = 1)) =>
         /\ call[c].req.verb = p.verb
         /\ call[c].req.path = p.u
         /\ call[c].req.opt = call[c].args.opt
    /\ (Returned(c) /\ call[c].nDo = 1) =>
         call[c].ret = Finish(p.returns, call[c].do)

\* A step of one call writes nothing the other call holds, and not the client.
C11_StepOfOneCall ==
  /\ client' = client
  /\ \A c \in Pair :
       call'[c] # call[c] => \A o \in Pair \ {c} : call'[o] = call[o]

(* C11: with two calls running concurrently, in every interleaving the request
   each call sends (verb, path, options) is determined by its own arguments
   only and the result it returns by its own response only, and no step of a
   call writes state of the other call or the shared client. *)
C11_CallsIndependent ==
  []C11_OwnRequestOwnResult /\ [][C11_StepOfOneCall]_vars

\* Two calls of the same method are in flight at once, their requests built
\* from different arguments.
C11_Witness ==
  /\ Built("c1") /\ Built("c2")
  /\ call["c1"].name = call["c2"].name
  /\ call["c1"].req.path # call["c2"].req.path

(* ---------------------------------- C12 --------------------------------- *)

\* From entry to return a call leaves the arguments it was given as they are.
C12_ArgumentsKept ==
  \A c \in Callers :
    (call[c].pc # "idle" /\ call'[c].pc # "idle") =>
      /\ call'[c].name = call[c].name
      /\ call'[c].args = call[c].args

(* C12: no method changes state that outlives the call: after any sequence of
   calls each service's client reference is the one it was constructed with,
   and no step of a method assigns to the options struct or to the identifier
   arguments (pid, sha, user, key/email/token id) the caller passed. *)
C12_NothingOutlivesTheCall ==
  [](client = [s \in Services |-> "client"]) /\ [][C12_ArgumentsKept]_vars

\* ModifyUser or CherryPickCommit has returned after its round trip, called
\* with an options struct that has fields set.
C12_Witness ==
  \E c \in Callers :
    /\ Returned(c) /\ call[c].nDo = 1
    /\ call[c].name \in {"ModifyUser", "CherryPickCommit"}
    /\ call[c].args.opt.set # {}
    /\ call[c].ret.err = NoErr

(* ---------------------------------- C13 --------------------------------- *)

\* The methods that return one record.
SingleMethods ==
  {"GetUser", "CreateUser", "ModifyUser", "CurrentUser", "GetSSHKey", "AddSSHKey",
   "AddSSHKeyForUser", "GetEmail", "AddEmail", "AddEmailForUser",
   "GetImpersonationToken", "CreateImpersonationToken", "CurrentUserStatus",
   "GetUserStatus", "SetUserStatus", "GetCommit", "CreateCommit",
   "PostCommitComment", "SetCommitStatus", "CherryPickCommit"}

\* The call of c has returned after its round trip, without an error.
Succeeded(c) == Returned(c) /\ call[c].nDo = 1 /\ call[c].ret.err = NoErr

(* C13, as stated: every single-entity method returns, on success, exactly one
   record, and it is the one client.Do decoded from the response of that
   call. *)
C13_ExactlyOneDecodedRecord ==
  \A c \in Callers :
    (Succeeded(c) /\ call[c].name \in SingleMethods) =>
      /\ ~call[c].ret.data.isNil
      /\ Len(call[c].ret.data.items) = 1
      /\ call[c].ret.data = call[c].do.v

(* ---------------------------------- C14 --------------------------------- *)

(* C14: each of DeleteUser, DeleteSSHKey, DeleteSSHKeyForUser, DeleteEmail,
   DeleteEmailForUser and RevokeImpersonationToken sends verb DELETE with no
   options and no decode target, and returns exactly the response and error
   client.Do returned, whatever the status code. *)
C14_DeleteReturnsDoPair ==
  \A c \in Callers :
    call[c].name \in DeleteMethods =>
      /\ (Built(c) \/ (Returned(c) /\ call[c].nDo = 1)) =>
           /\ call[c].req.verb = "DELETE"
           /\ call[c].req.opt = NoOpt
           /\ call[c].req.params = {}
           /\ PlanOf(c).v = NilTarget
      /\ (Returned(c) /\ call[c].nDo = 1) =>
           /\ call[c].ret.resp = call[c].do.resp
           /\ call[c].ret.err = call[c].do.err
           /\ call[c].ret.data.isNil

\* A delete has returned a response with an error status and the nil error
\* client.Do gave with it.
C14_Witness ==
  \E c \in Callers :
    /\ Returned(c) /\ call[c].nDo = 1
    /\ call[c].name = "RevokeImpersonationToken"
    /\ call[c].do.err = NoErr
    /\ call[c].ret.resp.StatusCode = StatusNotFound
    /\ call[c].ret.err = NoErr

(* ---------------------------------- C15 --------------------------------- *)

(* C15: BlockUser and UnblockUser return a nil error if and only if client.Do
   returned no error and the status code of the response is exactly 201; with
   any other status code, 200 and 204 included, the error is not nil. *)
C15_NilErrorIffCreated ==
  \A c \in Callers :
    (Returned(c) /\ call[c].name \in BlockMethods) =>
      (call[c].ret.err = NoErr <=>
         /\ call[c].nDo = 1
         /\ call[c].do.err = NoErr
         /\ call[c].do.resp.StatusCode = StatusCreated)

\* UnblockUser got 200 without an error from client.Do and returned an error.
C15_Witness ==
  \E c \in Callers :
    /\ Returned(c) /\ call[c].nDo = 1
    /\ call[c].name = "UnblockUser"
    /\ call[c].do.err = NoErr
    /\ call[c].do.resp.StatusCode = 200
    /\ call[c].ret.err # NoErr

(* ---------------------------------- C16 --------------------------------- *)

\* The segments of a path, split at "/".
C16_Split(s) ==
  LET slashes == {i \in 1..Len(s) : s[i] = "/"}
      n == Cardinality(slashes)
      \* the position of the k-th "/"; 0 and Len(s) + 1 stand at the two ends
      cut(k) == IF k = 0 THEN 0
                ELSE IF k = n + 1 THEN Len(s) + 1
                ELSE CHOOSE i \in slashes : Cardinality({j \in slashes : j < i}) = k - 1
  IN [k \in 1..(n + 1) |-> SubSeq(s, cut(k - 1) + 1, cut(k) - 1)]

\* The operations on the authenticated user, and those on a specified user.
C16_CurrentUserOps ==
  {"ListSSHKeys", "GetSSHKey", "AddSSHKey", "DeleteSSHKey", "ListEmails", "GetEmail",
   "AddEmail", "DeleteEmail", "CurrentUserStatus", "SetUserStatus",
   "GetUserActivities"}

C16_ForUserOps ==
  {"ListSSHKeysForUser", "AddSSHKeyForUser", "DeleteSSHKeyForUser",
   "ListEmailsForUser", "AddEmailForUser", "DeleteEmailForUser", "GetUserStatus",
   "GetAllImpersonationTokens", "GetImpersonationToken",
   "CreateImpersonationToken", "RevokeImpersonationToken"}

\* Those that address one key, email or token by its id.
C16_ById ==
  {"GetSSHKey", "DeleteSSHKey", "GetEmail", "DeleteEmail", "DeleteSSHKeyForUser",
   "DeleteEmailForUser", "GetImpersonationToken", "RevokeImpersonationToken"}

\* The collection an operation works on.
C16_Collection(name) ==
  CASE name \in {"ListSSHKeys", "GetSSHKey", "AddSSHKey", "DeleteSSHKey",
                 "ListSSHKeysForUser", "AddSSHKeyForUser", "DeleteSSHKeyForUser"} ->
         <<"k", "e", "y", "s">>
    [] name \in {"ListEmails", "GetEmail", "AddEmail", "DeleteEmail",
                 "ListEmailsForUser", "AddEmailForUser", "DeleteEmailForUser"} ->
         <<"e", "m", "a", "i", "l", "s">>
    [] name \in {"CurrentUserStatus", "SetUserStatus", "GetUserStatus"} ->
         <<"s", "t", "a", "t", "u", "s">>
    [] name = "GetUserActivities" ->
         <<"a", "c", "t", "i", "v", "i", "t", "i", "e", "s">>
    [] OTHER ->
         <<"i", "m", "p", "e", "r", "s", "o", "n", "a", "t", "i", "o", "n", "_",
           "t", "o", "k", "e", "n", "s">>

(* C16: in UsersService an operation on the authenticated user builds the path
   user/<collection> or user/<collection>/<id>, with no user id in it, and the
   operation on a specified user builds users/<user>/<collection> or
   users/<user>/<collection>/<id>: the user id first, the key, email or token
   id second. *)
C16_UserAndUsersPaths ==
  \A c \in Callers :
    Built(c) =>
      LET name == call[c].name
          segs == C16_Split(call[c].req.path)
          n    == IF name \in C16_ById THEN 1 ELSE 0
      IN
      /\ name \in C16_CurrentUserOps =>
           /\ Len(segs) = 2 + n
           /\ segs[1] = <<"u", "s", "e", "r">>
           /\ segs[2] = C16_Collection(name)
           /\ n = 1 => C7_IsDecimalOf(segs[3], call[c].args.id)
      /\ name \in C16_ForUserOps =>
           /\ Len(segs) = 3 + n
           /\ segs[1] = <<"u", "s", "e", "r", "s">>
           /\ C7_IsDecimalOf(segs[2], call[c].args.user)
           /\ segs[3] = C16_Collection(name)
           /\ n = 1 => C7_IsDecimalOf(segs[4], call[c].args.id)

\* The request of DeleteSSHKeyForUser(42, 17) has been built.
C16_Witness ==
  \E c \in Callers :
    /\ Built(c)
    /\ call[c].name = "DeleteSSHKeyForUser"
    /\ call[c].args.user = 42 /\ call[c].args.id = 17

(* ---------------------------------- C17 --------------------------------- *)

C17_Projects == <<"p", "r", "o", "j", "e", "c", "t", "s">>
C17_Statuses == <<"s", "t", "a", "t", "u", "s", "e", "s">>

\* The project ids that parse.
C17_GoodPids == {p \in Pids : parseID(p).err = NoErr}

\* path is <head>/<sha>, sha taken as the caller gave it.
C17_EndsWithSha(path, sha) ==
  /\ Len(path) > Len(sha) + 1
  /\ SubSeq(path, Len(path) - Len(sha) + 1, Len(path)) = sha
  /\ path[Len(path) - Len(sha)] = "/"

\* The path up to the "/" before its last Len(sha) characters.
C17_BeforeSha(path, sha) == SubSeq(path, 1, Len(path) - Len(sha) - 1)

(* C17: SetCommitStatus sends POST to projects/<project>/statuses/<sha>, which
   is not under repository/commits; GetCommitStatuses sends GET to
   projects/<project>/repository/commits/<sha>/statuses; whatever project id
   and sha each is called with, the two never build the same path. *)
C17_StatusPathsApart ==
  \A c \in Callers :
    Built(c) =>
      LET path == call[c].req.path
          sha  == call[c].args.sha
          segs == C16_Split(path)
      IN
      /\ call[c].name = "SetCommitStatus" =>
           /\ call[c].req.verb = "POST"
           /\ C17_EndsWithSha(path, sha)
           /\ LET head == C16_Split(C17_BeforeSha(path, sha)) IN
                /\ Len(head) = 3
                /\ head[1] = C17_Projects
                /\ head[2] # <<>>
                /\ head[3] = C17_Statuses
           /\ \A p \in C17_GoodPids : \A s \in Shas :
                \A o \in OptValues("GetCommitStatusesOptions") :
                  GetCommitStatuses(p, s, o).u # path
      /\ call[c].name = "GetCommitStatuses" =>
           /\ call[c].req.verb = "GET"
           /\ Len(segs) >= 6
           /\ segs[1] = C17_Projects
           /\ segs[3] = <<"r", "e", "p", "o", "s", "i", "t", "o", "r", "y">>
           /\ segs[4] = <<"c", "o", "m", "m", "i", "t", "s">>
           /\ segs[Len(segs)] = C17_Statuses
           /\ C17_EndsWithSha(SubSeq(path, 1, Len(path) - Len(C17_Statuses) - 1), sha)

\* The request of SetCommitStatus for a sha holding a "/" has been built.
C17_Witness ==
  \E c \in Callers :
    /\ Built(c)
    /\ call[c].name = "SetCommitStatus"
    /\ call[c].args.sha = <<"c", "/", "d", "i", "f", "f">>

(* ---------------------------------- C18 --------------------------------- *)

\* The service a method belongs to.
C18_ServiceOf(name) == Plan(name, NoArgs).service

\* The (verb, path) pairs a method builds over all its arguments.
C18_Requests(name) ==
  {Resource(Plan(name, a)) : a \in {x \in ArgsOf(name) : Plan(name, x).parseErr = NoErr}}

(* C18, as stated: for all arguments, two different operations of the same
   service never build the same (verb, path) pair; in particular GetCommit
   with some sha never builds the path GetCommitDiff, GetCommitRefs,
   GetCommitComments or GetCommitStatuses builds with another sha. *)
C18_RequestIdentifiesOperation ==
  \A c \in Callers :
    Built(c) =>
      \A other \in Methods \ {call[c].name} :
        C18_ServiceOf(other) = C18_ServiceOf(call[c].name) =>
          <<call[c].req.verb, call[c].req.path>> \notin C18_Requests(other)

\* The request of GetCommit for the sha "c/diff" has been built.
C18_Witness ==
  \E c \in Callers :
    /\ Built(c)
    /\ call[c].name = "GetCommit"
    /\ call[c].args.sha = <<"c", "/", "d", "i", "f", "f">>

(* ---------------------------------- C19 --------------------------------- *)

\* The single-record methods that hand client.Do a pointer to a pointer.
C19_PtrToPtrMethods ==
  {name \in SingleMethods : Plan(name, NoArgs).v.kind = "ptr"}

(* C19, as stated: a method that returns a single record together with a nil
   error returns a non-nil record; for no response does a single-entity method
   return (nil, response, nil), the methods that hand client.Do a pointer to a
   pointer (CreateCommit, SetCommitStatus, CherryPickCommit,
   GetImpersonationToken, CreateImpersonationToken) included. *)
C19_NoNilRecordWithNilError ==
  \A c \in Callers :
    (Returned(c) /\ call[c].name \in SingleMethods) =>
      ~(call[c].ret.data.isNil /\ ~call[c].ret.resp.isNil /\ call[c].ret.err = NoErr)

\* A method that hands client.Do a pointer to a pointer has returned after a
\* response whose body was the JSON value null.
C19_Witness ==
  \E c \in Callers :
    /\ Succeeded(c)
    /\ call[c].name \in C19_PtrToPtrMethods
    /\ call[c].do.body = JNull

(* ---------------------------------- C20 --------------------------------- *)

\* The methods that return (data, response, error).
C20_DataMethods == {name \in Methods : Plan(name, NoArgs).returns = "data"}

(* C20: a method returning (data, response, error) returns nil data whenever
   the error it returns is not nil, whatever client.Do had decoded into the
   target before it failed. *)
C20_NoDataWithError ==
  \A c \in Callers :
    (Returned(c) /\ call[c].name \in C20_DataMethods /\ call[c].ret.err # NoErr) =>
      call[c].ret.data = NilVal

\* client.Do failed after decoding part of the body into the target, and the
\* method returned its error.
C20_Witness ==
  \E c \in Callers :
    /\ Returned(c) /\ call[c].nDo = 1
    /\ call[c].name \in C20_DataMethods
    /\ call[c].do.err = ErrDecode
    /\ ~call[c].do.v.isNil /\ call[c].do.v.items # <<>>
    /\ call[c].ret.err = ErrDecode

(* ---------------------------------- C21 --------------------------------- *)

C21_CommitsMethods == {name \in Methods : Plan(name, NoArgs).service = "CommitsService"}

(* C21: in every CommitsService method the steps run in the order parseID,
   client.NewRequest, client.Do, each at most once and only if the one before
   succeeded: when parseID fails no request is built and none is sent and the
   method returns (nil, nil, err); when client.NewRequest fails client.Do is
   not invoked and the method returns (nil, nil, err). *)
C21_StepsInOrder ==
  \A c \in Callers :
    call[c].name \in C21_CommitsMethods =>
      LET parsed == parseID(call[c].args.pid) IN
      /\ call[c].nParseID <= 1 /\ call[c].nNewRequest <= 1 /\ call[c].nDo <= 1
      /\ call[c].nNewRequest = 1 => (call[c].nParseID = 1 /\ parsed.err = NoErr)
      /\ call[c].nDo = 1 => (call[c].nNewRequest = 1 /\ call[c].reqErr = NoErr)
      /\ (call[c].nParseID = 1 /\ parsed.err # NoErr) =>
           /\ Returned(c)
           /\ call[c].nNewRequest = 0 /\ call[c].nDo = 0
           /\ call[c].req = NoReq
           /\ call[c].ret = Result(NilVal, NilResp, parsed.err)
      /\ (call[c].nNewRequest = 1 /\ call[c].reqErr # NoErr) =>
           /\ Returned(c)
           /\ call[c].nDo = 0
           /\ call[c].ret = Result(NilVal, NilResp, call[c].reqErr)

\* CherryPickCommit parsed its project id, failed to build its request and
\* returned without a round trip.
C21_Witness ==
  \E c \in Callers :
    /\ Returned(c)
    /\ call[c].name = "CherryPickCommit"
    /\ call[c].nParseID = 1 /\ call[c].nNewRequest = 1 /\ call[c].nDo = 0
    /\ call[c].ret.err = ErrNewRequest

(* ---------------------------------- C22 --------------------------------- *)

\* The methods that return a response (all but BlockUser and UnblockUser).
C22_RespMethods == {name \in Methods : Plan(name, NoArgs).returns \in {"data", "resp"}}

(* C22, as stated: a method returning a response returns a nil response
   exactly when client.Do was never invoked (parseID or NewRequest failed);
   whenever client.Do was invoked the response returned is the one client.Do
   returned, on failure as on success, so that the caller can read the status
   code of a failed call. *)
C22_NilResponseIffNoRoundTrip ==
  \A c \in Callers :
    (Returned(c) /\ call[c].name \in C22_RespMethods) =>
      /\ call[c].ret.resp.isNil <=> call[c].nDo = 0
      /\ call[c].nDo = 1 => call[c].ret.resp = call[c].do.resp

(* C22, amended: when client.Do was never invoked the returned response is
   nil; whenever it was invoked the returned response is the one client.Do
   returned, on failure as on success, which is nil when client.Do had no
   response to return. *)
C22_ResponseIsWhatDoReturned ==
  \A c \in Callers :
    (Returned(c) /\ call[c].name \in C22_RespMethods) =>
      /\ call[c].nDo = 0 => call[c].ret.resp.isNil
      /\ call[c].nDo = 1 => call[c].ret.resp = call[c].do.resp

\* A call failed in client.Do and returned the response with its status code
\* together with the error.
C22_Witness ==
  \E c \in Callers :
    /\ Returned(c) /\ call[c].nDo = 1
    /\ call[c].name = "GetCommitComments"
    /\ call[c].ret.err = ErrResponse
    /\ ~call[c].ret.resp.isNil
    /\ call[c].ret.resp.StatusCode = 500

(* ---------------------------------- C23 --------------------------------- *)

\* The errors the switches of BlockUser and UnblockUser make up.
C23_StatusErrors(name) ==
  {C3_Forbidden(name), C3_NotFound}
    \cup {[msg |-> "Received unexpected result code: %d", code |-> s] : s \in StatusCodes}

(* C23: BlockUser and UnblockUser look at the status code of the response only
   when client.Do returned no error: when client.Do returns an error, the
   method returns that error unchanged whatever the status code of the
   response, 403 and 404 included, and none of the status-code messages. *)
C23_DoErrorBeforeStatus ==
  \A c \in Callers :
    (Returned(c) /\ call[c].name \in BlockMethods /\ call[c].nDo = 1
     /\ call[c].do.err # NoErr) =>
      /\ call[c].ret.err = call[c].do.err
      /\ call[c].ret.err \notin C23_StatusErrors(call[c].name)

\* client.Do returned an error with a 403 response to BlockUser, and with a 404
\* response to UnblockUser, and the method returned the error of client.Do.
C23_Witness ==
  \E c \in Callers :
    /\ Returned(c) /\ call[c].nDo = 1
    /\ \/ call[c].name = "BlockUser" /\ call[c].do.resp.StatusCode = StatusForbidden
       \/ call[c].name = "UnblockUser" /\ call[c].do.resp.StatusCode = StatusNotFound
    /\ call[c].do.err = ErrResponse
    /\ call[c].ret.err = ErrResponse

=============================================================================
